---- MODULE Spec2Model ----
(***************************************************************************)
(* A model of the tBTC client's coordination core:                         *)
(*   - the per-member DKG task of node.joinDKGIfEligible together with the *)
(*     event-driven dkgResultSubmitter (src/unnamed/part_001),             *)
(*   - the context-driven dkgResultSubmitter (src/pkg/tbtc/dkg_submit.go), *)
(*   - the redemption fee distribution (src/pkg/tbtc/redemption.go).       *)
(***************************************************************************)
EXTENDS Integers, Sequences, FiniteSets, TLC

(***************************************************************************)
(* Bounds of the model.                                                    *)
(***************************************************************************)
GroupSize == 3
ResultPublicationBlockStep == 2
PrePublicationBlocks == 1
MaxStartBlock == 1
MaxFee == 12
MaxRequests == 4
ValueBits == 4
MaxTxRequests == 2
BlockBits == 10
RelayGroupSize == 3
MaxEntry == 3
MaxRelayBlock == 4
MaxRelayRequests == 2
MaxHandlers == 3
MaxUnregistrations == 2
MaxTargetSize == 2
MaxPersisted == 2
MaxGetNow == 3
MaxSpvInputs == 2
MaxSpvTxs == 2

(***************************************************************************)
(* Configuration derived from the bounds.                                  *)
(***************************************************************************)
Members == 1..GroupSize
HonestThreshold == (GroupSize \div 2) + 1
GroupQuorum == GroupSize
dkgResultSubmissionDelayStepBlocks == ResultPublicationBlockStep
MaxBlock ==
    MaxStartBlock + PrePublicationBlocks
        + GroupSize * ResultPublicationBlockStep

\* The misbehaved lists a peer's accepted result may carry: up to one member
\* more than the group tolerates.
MisbehavedSets ==
    { s \in SUBSET Members : Cardinality(s) <= GroupSize - HonestThreshold + 1 }

None == "none"

\* No DKGResultSubmittedEvent has been emitted yet.
NoEvent == [ GroupPublicKeyBytes |-> None, Misbehaved |-> {} ]
Keys == {"AA", "BB"}
DKGStates == {"Idle", "AwaitingSeed", "AwaitingResult", "Challenge"}

VARIABLES
    mode,               \* "node": part_001 task, "ctx": dkg_submit.go submitter
    indexes,            \* member indexes owned by the local operator
    result,             \* the local dkg.Result: group public key, misbehaved
    executionEndBlock,  \* block at which dkgExecutor.Execute ended
    block,              \* the chain's current block height
    dkgState,           \* what GetDKGState returns
    accepted,           \* the DKGResultSubmittedEvent emitted, or NoEvent
    pc,                 \* position of each member's task
    sigs,               \* len(signatures) handed to SubmitResult
    waitBlock,          \* eligibleBlockHeight / submissionBlock
    subSub,             \* submitter's OnDKGResultSubmitted subscription active
    subCb,              \* submitter's callback invocation
    nodeSub,            \* task's OnDKGResultSubmitted subscription active
    nodeCb,             \* task's callback invocation
    ctxDone,            \* ctx.Err() != nil
    subRet,             \* what SubmitResult returned: None, "nil", "error"
    calls,              \* chain calls made by SubmitResult so far
    abandoned,          \* event received / context cancelled while waiting
    stateRead,          \* the DKG state the pre-submission check read
    fate,               \* how decideSigningGroupMemberFate ended
    operating,          \* operatingMemberIndexes of the task
    signer,             \* signingGroupOperators registered, <<>> if none
    feeTotal,           \* totalFee given to withRedemptionTotalFee
    feeCount,           \* len(requests)
    feeShares,          \* the returned fee shares
    feePc,              \* "input", "done", "panic"
    txRequests,         \* requests given to assembleRedemptionTransaction
    txFeeShares,        \* what feeDistribution(requests) returns
    txMainUtxo,         \* walletMainUtxo: << >> is nil, << v >> has Value v
    txShape,            \* the variadic shape argument
    txOutputs,          \* the outputs added to the builder
    txPc,               \* "ready", "built", "error", "panic"
    proposalExpiryBlock,  \* redemptionAction.proposalExpiryBlock
    redeemRequests,     \* len(proposal.RedeemersOutputScripts)
    redeemPc,           \* the step execute() is at, "done" or "failed"
    redeemPhases,       \* the steps execute() has started, in order
    redeemPassed,       \* the steps that returned without error
    redeemErr,          \* the error execute() returned, or None
    signTimeoutBlock,   \* the timeout block handed to signTransaction
    relayBlock,         \* block.number
    requestCount,       \* Relay.Data.requestCount
    previousEntry,      \* Relay.Data.previousEntry
    currentRequest,     \* Relay.Data.currentRequest
    relayEntrySubmissionEligibilityDelay,
    relayEntryHardTimeout,
    relayCall,          \* the last call of the library and what it returned
    chanLog,            \* the Recv and UnregisterRecv calls made, in order
    chanHandlers,       \* the registered handlers (positions in chanLog)
    chanSent,           \* Send was called
    chanPending,        \* handlers the message is still to be handed to
    chanFired,          \* the handlers fired, in the order they fired
    poolTargetSize,     \* targetSize of the parameter pool
    poolGenerateFn,     \* "values": returns parameters, "nil": waits for
                        \* its context to be done and returns nil
    poolStorage,        \* mockPersistence.storage
    poolParams,         \* the parameters held in memory, oldest first
    poolPc,             \* "new", then the generator: "generate",
                        \* "waiting", "generated", "stopped"
    poolCandidate,      \* what generateFn returned, 0 for nil
    poolGenerated,      \* how many times generateFn was called
    poolStop,           \* scheduler.stop() was called
    poolGot,            \* what the GetNow calls returned, in order
    spvDeposits,        \* Bridge deposits: outpoint -> "none", "unswept",
                        \* "swept"
    spvMainUtxo,        \* the outpoint the wallet's MainUtxoHash stands for
    spvEvents,          \* number of past proposal events of the wallet
    spvTxs,             \* the wallet's recent Bitcoin transactions
    spvPc,              \* "sweep", "factor", "prove", "idle", "restart",
                        \* "returned"
    spvChecked,         \* what isUnprovenDepositSweepTransaction returned
                        \* for the transactions looked at in this sweep
    spvUnproven,        \* positions in spvTxs of the unproven transactions
    spvIdx,             \* position in spvUnproven of the next one to prove
    spvSubmitted,       \* transactions for which the proof submission was
                        \* attempted in this sweep
    spvFailed,          \* the transaction this sweep failed at, or 0
    spvCtxDone,         \* the maintainer's context: "no", cancelled during
                        \* a back-off wait ("waiting"), or before ("yes")
    sortPc,             \* MonitorPool: "start", "running", "failed",
                        \* "stopped"
    sortCheck,          \* the last checkOperatorStatus: the chain's
                        \* answers and the calls made
    rsMember,           \* memberIndex of the task
    rsResult,           \* the member's dkg.Result
    rsEvent,            \* the accepted result's event
    rsSelected,         \* selectedSigningGroupOperators
    rsPublished,        \* dkg.Publish returned no error
    rsOperating,        \* operatingMemberIndexes
    rsPc,               \* "publish", "resolve", "done"
    rsSigner,           \* signingGroupOperators of the registered signer
    rsErr,              \* the error the task ended with
    joinSelected,       \* what chain.SelectGroup returns: who holds each slot
    joinPc,             \* joinDKGIfEligible: "select", "channel", "tasks",
                        \* "returned"
    joinIndexes,        \* the member indexes of the local operator
    joinFilter,         \* SetFilter on the channel: "none", "set", "failed"
    joinStarted,        \* member indexes whose DKG task was started
    valProposal,        \* proposal.RedeemersOutputScripts
    valPending,         \* scripts with a pending request of the wallet
    valCalls,           \* chain calls of ValidateRedemptionProposal, in order
    valResult,          \* what it returned: the requests and the error
    winCurrentBlock,    \* what blockCounter.CurrentBlock() returns
    winPc,              \* the event query: "start", "queried", "failed"
    winStartBlock,      \* StartBlock of the event filter
    mfChain,            \* what the chains answer about the source wallet
    mfPc,               \* MovingFundsTask.Run: "run", "members", "submit",
                        \* "wait", "propose", "done"
    mfRun,              \* what Run has read, called and returned
    mfChecks            \* the wallet checks of the confirmation loop

DkgVars ==
    << mode, indexes, result, executionEndBlock, block, dkgState, accepted,
       pc, sigs, waitBlock, subSub, subCb, nodeSub, nodeCb, ctxDone, subRet,
       calls, abandoned, stateRead, fate, operating, signer >>

FeeVars == << feeTotal, feeCount, feeShares, feePc >>

TxVars ==
    << txRequests, txFeeShares, txMainUtxo, txShape, txOutputs, txPc >>

RedeemVars ==
    << proposalExpiryBlock, redeemRequests, redeemPc, redeemPhases,
       redeemPassed, redeemErr, signTimeoutBlock >>

\* The storage of the Relay library, and all of the relay's state.
RelayData ==
    << requestCount, previousEntry, currentRequest,
       relayEntrySubmissionEligibilityDelay, relayEntryHardTimeout >>

RelayVars == << relayBlock, RelayData, relayCall >>

ChanVars == << chanLog, chanHandlers, chanSent, chanPending, chanFired >>

PoolVars ==
    << poolTargetSize, poolGenerateFn, poolStorage, poolParams, poolPc,
       poolCandidate, poolGenerated, poolStop, poolGot >>

SpvVars ==
    << spvDeposits, spvMainUtxo, spvEvents, spvTxs, spvPc, spvChecked,
       spvUnproven, spvIdx, spvSubmitted, spvFailed, spvCtxDone >>

SortVars == << sortPc, sortCheck >>

RsVars ==
    << rsMember, rsResult, rsEvent, rsSelected, rsPublished, rsOperating,
       rsPc, rsSigner, rsErr >>

JoinVars == << joinSelected, joinPc, joinIndexes, joinFilter, joinStarted >>

ValVars == << valProposal, valPending, valCalls, valResult >>

WinVars == << winCurrentBlock, winPc, winStartBlock >>

MfVars == << mfChain, mfPc, mfRun, mfChecks >>

\* A step of the part named leaves every other part as it is.
OthersUnchanged(part) ==
    /\ IF part = "dkg" THEN TRUE ELSE UNCHANGED DkgVars
    /\ IF part = "fee" THEN TRUE ELSE UNCHANGED FeeVars
    /\ IF part = "tx" THEN TRUE ELSE UNCHANGED TxVars
    /\ IF part = "redeem" THEN TRUE ELSE UNCHANGED RedeemVars
    /\ IF part = "relay" THEN TRUE ELSE UNCHANGED RelayVars
    /\ IF part = "chan" THEN TRUE ELSE UNCHANGED ChanVars
    /\ IF part = "pool" THEN TRUE ELSE UNCHANGED PoolVars
    /\ IF part = "spv" THEN TRUE ELSE UNCHANGED SpvVars
    /\ IF part = "sort" THEN TRUE ELSE UNCHANGED SortVars
    /\ IF part = "rs" THEN TRUE ELSE UNCHANGED RsVars
    /\ IF part = "join" THEN TRUE ELSE UNCHANGED JoinVars
    /\ IF part = "val" THEN TRUE ELSE UNCHANGED ValVars
    /\ IF part = "win" THEN TRUE ELSE UNCHANGED WinVars
    /\ IF part = "mf" THEN TRUE ELSE UNCHANGED MfVars

vars ==
    << DkgVars, FeeVars, TxVars, RedeemVars, RelayVars, ChanVars, PoolVars,
       SpvVars, SortVars, RsVars,
       JoinVars,
       ValVars,
       WinVars,
       MfVars >>

(***************************************************************************)
(* Pure helpers of the DKG publication code.                               *)
(***************************************************************************)

\* dkgResultSubmitter.setupEligibilityQueue: eligibleBlockHeight.
EligibleBlockHeight_NoStep(startBlockNumber, memberIndex) ==
    startBlockNumber + (memberIndex - 1)

EligibleBlockHeight(startBlockNumber, memberIndex) ==
    startBlockNumber + (memberIndex - 1) * ResultPublicationBlockStep

\* dkg_submit.go SubmitResult: submissionBlock.
SubmissionBlock(currentBlock, memberIndex) ==
    currentBlock + (memberIndex - 1) * dkgResultSubmissionDelayStepBlocks

\* node.waitForDkgResultEvent: timeoutBlock.
TimeoutBlock_NoWait(publicationStartBlock) == publicationStartBlock

TimeoutBlock(publicationStartBlock) ==
    publicationStartBlock + PrePublicationBlocks
        + GroupSize * ResultPublicationBlockStep

\* The signature gates of the two submitters.
NodeSignatureGate(n) == n >= HonestThreshold
CtxSignatureGate(n) == n >= GroupQuorum

\* result.Group.MemberIDs() and result.Group.OperatingMemberIDs().
MemberIDs(r) == Members
OperatingMemberIDs(r) == Members \ r.misbehaved

\* node.decideSigningGroupMemberFate after the event has been received:
\* the error it returns (None if it returns the operating members).
FateOf_NoKeyCheck(memberIndex, event, r) ==
    IF memberIndex \in event.Misbehaved THEN "misbehaved" ELSE None

FateOf_NoMisbehavedCheck(memberIndex, event, r) ==
    IF r.groupPublicKey # event.GroupPublicKeyBytes THEN "fork" ELSE None

FateOf(memberIndex, event, r) ==
    IF r.groupPublicKey # event.GroupPublicKeyBytes
    THEN "fork"
    ELSE IF memberIndex \in event.Misbehaved
         THEN "misbehaved"
         ELSE None

FateOperating(event, r) ==
    { m \in MemberIDs(r) : m \notin event.Misbehaved }

\* selectedSigningGroupOperators: the address of each selection slot.
SelectedOperators(own) ==
    [ j \in 1..GroupSize |-> IF j \in own THEN "local" ELSE "peer" ]

\* Ascending sequence of a finite set of naturals (sort.Slice).
RECURSIVE SortedSeq(_)
SortedSeq(S) ==
    IF S = {} THEN << >>
    ELSE LET m == CHOOSE x \in S : \A y \in S : x <= y
         IN  << m >> \o SortedSeq(S \ {m})

\* sort.Slice with the less function of part_001:389-391: the list in
\* ascending order.
RECURSIVE SortSlice(_)
SortSlice(q) ==
    IF q = << >> THEN << >>
    ELSE LET k == CHOOSE a \in 1..Len(q) :
                    /\ \A b \in 1..Len(q) : q[a] <= q[b]
                    /\ \A b \in 1..(a - 1) : q[b] # q[a]
         IN  << q[k] >>
             \o SortSlice(SubSeq(q, 1, k - 1) \o SubSeq(q, k + 1, Len(q)))

\* node.resolveFinalSigningGroupOperators: << >> stands for the error.
ResolveFinalSigningGroupOperators_Unsorted(selectedOperators, operatingMembersIndexes) ==
    IF Len(selectedOperators) # GroupSize
       \/ Len(operatingMembersIndexes) < HonestThreshold
    THEN << >>
    ELSE [ k \in 1..Len(operatingMembersIndexes) |->
             selectedOperators[operatingMembersIndexes[k]] ]

ResolveFinalSigningGroupOperators(selectedOperators, operatingMembersIndexes) ==
    IF Len(selectedOperators) # GroupSize
       \/ Len(operatingMembersIndexes) < HonestThreshold
    THEN << >>
    ELSE LET sorted == SortSlice(operatingMembersIndexes)
         IN  [ k \in 1..Len(sorted) |-> selectedOperators[sorted[k]] ]

(***************************************************************************)
(* Subscriptions. A callback invocation is "idle" (none yet), "blocked"    *)
(* (the callback runs and waits on its unbuffered channel send) or "done"  *)
(* (the send completed and the callback returned).                         *)
(***************************************************************************)

\* The chain emits DKGResultSubmitted: the callback of every active
\* subscription is invoked and blocks on its channel send
\* (part_001:185-187, 491-493). Unsubscribe only deactivates a
\* subscription: a callback that already runs is left where it is.
Emitted(cb, sub) ==
    [ i \in Members |->
        IF sub[i] /\ cb[i] = "idle" THEN "blocked" ELSE cb[i] ]

FeeIdle ==
    /\ feeTotal = 0
    /\ feeCount = 0
    /\ feeShares = << >>
    /\ feePc = "idle"

DkgIdle ==
    /\ mode = "off"
    /\ indexes = {}
    /\ result = [ groupPublicKey |-> "AA", misbehaved |-> {} ]
    /\ executionEndBlock = 0
    /\ block = 0
    /\ dkgState = "Idle"
    /\ accepted = NoEvent
    /\ pc = [ i \in Members |-> "absent" ]
    /\ sigs = [ i \in Members |-> 0 ]
    /\ waitBlock = [ i \in Members |-> 0 ]
    /\ subSub = [ i \in Members |-> FALSE ]
    /\ subCb = [ i \in Members |-> "idle" ]
    /\ nodeSub = [ i \in Members |-> FALSE ]
    /\ nodeCb = [ i \in Members |-> "idle" ]
    /\ ctxDone = [ i \in Members |-> FALSE ]
    /\ subRet = [ i \in Members |-> None ]
    /\ calls = [ i \in Members |-> {} ]
    /\ abandoned = [ i \in Members |-> FALSE ]
    /\ stateRead = [ i \in Members |-> None ]
    /\ fate = [ i \in Members |-> None ]
    /\ operating = [ i \in Members |-> {} ]
    /\ signer = [ i \in Members |-> << >> ]

TxIdle ==
    /\ txRequests = << >>
    /\ txFeeShares = << >>
    /\ txMainUtxo = << >>
    /\ txShape = << >>
    /\ txOutputs = << >>
    /\ txPc = "idle"

RedeemIdle ==
    /\ proposalExpiryBlock = 0
    /\ redeemRequests = 0
    /\ redeemPc = "idle"
    /\ redeemPhases = << >>
    /\ redeemPassed = {}
    /\ redeemErr = None
    /\ signTimeoutBlock = 0

\* delete self.currentRequest: every field is zero.
NoRequest == [ id |-> 0, groupId |-> 0, startBlock |-> 0 ]

\* No call made yet.
NoCall ==
    [ fn |-> None, error |-> None, first |-> 0, last |-> 0, punished |-> << >> ]

RelayIdle ==
    /\ relayBlock = 0
    /\ requestCount = 0
    /\ previousEntry = 0
    /\ currentRequest = NoRequest
    /\ relayEntrySubmissionEligibilityDelay = 0
    /\ relayEntryHardTimeout = 0
    /\ relayCall = NoCall

ChanIdle ==
    /\ chanLog = << >>
    /\ chanHandlers = << >>
    /\ chanSent = FALSE
    /\ chanPending = {}
    /\ chanFired = << >>

PoolIdle ==
    /\ poolTargetSize = 0
    /\ poolGenerateFn = "values"
    /\ poolStorage = {}
    /\ poolParams = << >>
    /\ poolPc = "idle"
    /\ poolCandidate = 0
    /\ poolGenerated = 0
    /\ poolStop = FALSE
    /\ poolGot = << >>

SpvIdle ==
    /\ spvDeposits = << >>
    /\ spvMainUtxo = None
    /\ spvEvents = 0
    /\ spvTxs = << >>
    /\ spvPc = "off"
    /\ spvChecked = << >>
    /\ spvUnproven = << >>
    /\ spvIdx = 0
    /\ spvSubmitted = << >>
    /\ spvFailed = 0
    /\ spvCtxDone = "no"

SortIdle ==
    /\ sortPc = "off"
    /\ sortCheck = << >>

RsIdle ==
    /\ rsMember = 0
    /\ rsResult = << >>
    /\ rsEvent = << >>
    /\ rsSelected = << >>
    /\ rsPublished = FALSE
    /\ rsOperating = << >>
    /\ rsPc = "off"
    /\ rsSigner = << >>
    /\ rsErr = None

JoinIdle ==
    /\ joinSelected = << >>
    /\ joinPc = "off"
    /\ joinIndexes = {}
    /\ joinFilter = "none"
    /\ joinStarted = {}

ValIdle ==
    /\ valProposal = << >>
    /\ valPending = {}
    /\ valCalls = << >>
    /\ valResult = [ requests |-> << >>, err |-> "off" ]

WinIdle ==
    /\ winCurrentBlock = 0
    /\ winPc = "off"
    /\ winStartBlock = 0

MfIdle ==
    /\ mfChain = << >>
    /\ mfPc = "off"
    /\ mfRun = << >>
    /\ mfChecks = << >>

\* Every part of the model but the one named is at rest.
OthersIdle(part) ==
    /\ IF part = "dkg" THEN TRUE ELSE DkgIdle
    /\ IF part = "fee" THEN TRUE ELSE FeeIdle
    /\ IF part = "tx" THEN TRUE ELSE TxIdle
    /\ IF part = "redeem" THEN TRUE ELSE RedeemIdle
    /\ IF part = "relay" THEN TRUE ELSE RelayIdle
    /\ IF part = "chan" THEN TRUE ELSE ChanIdle
    /\ IF part = "pool" THEN TRUE ELSE PoolIdle
    /\ IF part = "spv" THEN TRUE ELSE SpvIdle
    /\ IF part = "sort" THEN TRUE ELSE SortIdle
    /\ IF part = "rs" THEN TRUE ELSE RsIdle
    /\ IF part = "join" THEN TRUE ELSE JoinIdle
    /\ IF part = "val" THEN TRUE ELSE ValIdle
    /\ IF part = "win" THEN TRUE ELSE WinIdle
    /\ IF part = "mf" THEN TRUE ELSE MfIdle

(***************************************************************************)
(* Initial state of the DKG publication.                                   *)
(***************************************************************************)
InitDkg ==
    /\ mode \in {"node", "ctx"}
    /\ indexes \in { {i} : i \in Members }
    /\ result \in [ groupPublicKey : {"AA"},
                    misbehaved : IF mode = "ctx" THEN { {} }
                                 ELSE { s \in SUBSET (Members \ indexes) :
                                          Cardinality(s) <= 1 } ]
    /\ executionEndBlock \in 1..MaxStartBlock
    /\ block = executionEndBlock
    /\ dkgState = "AwaitingResult"
    /\ accepted = NoEvent
    /\ pc = [ i \in Members |-> IF i \in indexes THEN "execute" ELSE "absent" ]
    /\ sigs = [ i \in Members |-> 0 ]
    /\ waitBlock = [ i \in Members |-> 0 ]
    /\ subSub = [ i \in Members |-> FALSE ]
    /\ subCb = [ i \in Members |-> "idle" ]
    /\ nodeSub = [ i \in Members |-> FALSE ]
    /\ nodeCb = [ i \in Members |-> "idle" ]
    /\ ctxDone = [ i \in Members |-> FALSE ]
    /\ subRet = [ i \in Members |-> None ]
    /\ calls = [ i \in Members |-> {} ]
    /\ abandoned = [ i \in Members |-> FALSE ]
    /\ stateRead = [ i \in Members |-> None ]
    /\ fate = [ i \in Members |-> None ]
    /\ operating = [ i \in Members |-> {} ]
    /\ signer = [ i \in Members |-> << >> ]

Init == InitDkg /\ OthersIdle("dkg")

(***************************************************************************)
(* The chain and the block counter (the environment of the client).        *)
(***************************************************************************)

\* The chain is observed while a task of the local operator is running.
Running == \E i \in indexes : pc[i] # "done"

\* A new block is mined.
Tick ==
    /\ Running
    /\ block < MaxBlock
    /\ block' = block + 1
    /\ UNCHANGED << mode, indexes, result, executionEndBlock, dkgState,
                    accepted, pc, sigs, waitBlock, subSub, subCb, nodeSub,
                    nodeCb, ctxDone, subRet, calls, abandoned,
                    stateRead, fate, operating, signer >>
    /\ OthersUnchanged("dkg")

\* A member of another operator gets its result accepted by the chain.
PeerSubmit(key, misbehaved) ==
    /\ Running
    /\ dkgState = "AwaitingResult"
    /\ dkgState' = "Challenge"
    /\ accepted' = [ GroupPublicKeyBytes |-> key, Misbehaved |-> misbehaved ]
    /\ subCb' = Emitted(subCb, subSub)
    /\ nodeCb' = Emitted(nodeCb, nodeSub)
    /\ UNCHANGED << mode, indexes, result, executionEndBlock, block, pc, sigs,
                    waitBlock, subSub, nodeSub, ctxDone, subRet, calls,
                    abandoned, stateRead, fate, operating,
                    signer >>
    /\ OthersUnchanged("dkg")

\* The remaining transitions of the observed DKG state machine:
\* AwaitingResult -> Idle (timeout), Challenge -> Idle (approval),
\* Idle -> AwaitingSeed (a new group is requested).
ChainStep ==
    /\ Running
    /\ \/ dkgState = "AwaitingResult" /\ dkgState' = "Idle"
       \/ dkgState = "Challenge" /\ dkgState' = "Idle"
       \/ dkgState = "Idle" /\ dkgState' = "AwaitingSeed"
    /\ UNCHANGED << mode, indexes, result, executionEndBlock, block, accepted,
                    pc, sigs, waitBlock, subSub, subCb, nodeSub, nodeCb,
                    ctxDone, subRet, calls, abandoned, stateRead,
                    fate, operating, signer >>
    /\ OthersUnchanged("dkg")

\* The upstream cancels the context handed to SubmitResult (dkg_submit.go).
CtxCancel(i) ==
    /\ mode = "ctx"
    /\ pc[i] \notin {"absent", "done"}
    /\ ~ctxDone[i]
    /\ ctxDone' = [ctxDone EXCEPT ![i] = TRUE]
    /\ abandoned' = [abandoned EXCEPT ![i] = (pc[i] = "cwait")]
    /\ UNCHANGED << mode, indexes, result, executionEndBlock, block, dkgState,
                    accepted, pc, sigs, waitBlock, subSub, subCb, nodeSub,
                    nodeCb, subRet, calls, stateRead, fate,
                    operating, signer >>
    /\ OthersUnchanged("dkg")

(***************************************************************************)
(* The per-member task of node.joinDKGIfEligible (part_001:156-264).       *)
(***************************************************************************)

\* dkgExecutor.Execute fails: the task logs and returns (part_001:170-178).
ExecuteFail(i) ==
    /\ mode = "node"
    /\ pc[i] = "execute"
    /\ pc' = [pc EXCEPT ![i] = "done"]
    /\ fate' = [fate EXCEPT ![i] = "execute"]
    /\ UNCHANGED << mode, indexes, result, executionEndBlock, block, dkgState,
                    accepted, sigs, waitBlock, subSub, subCb, nodeSub, nodeCb,
                    ctxDone, subRet, calls, abandoned, stateRead,
                    operating, signer >>
    /\ OthersUnchanged("dkg")

\* Execute succeeded; the task subscribes to DKGResultSubmitted
\* (part_001:180-189).
ExecuteOk(i) ==
    /\ mode = "node"
    /\ pc[i] = "execute"
    /\ nodeSub' = [nodeSub EXCEPT ![i] = TRUE]
    /\ pc' = [pc EXCEPT ![i] = "publish"]
    /\ UNCHANGED << mode, indexes, result, executionEndBlock, block, dkgState,
                    accepted, sigs, waitBlock, subSub, subCb, nodeCb, ctxDone,
                    subRet, calls, abandoned, stateRead, fate,
                    operating, signer >>
    /\ OthersUnchanged("dkg")

\* dkg.Publish signs, collects n signatures and calls SubmitResult.
Publish(i, n) ==
    /\ mode = "node"
    /\ pc[i] = "publish"
    /\ sigs' = [sigs EXCEPT ![i] = n]
    /\ pc' = [pc EXCEPT ![i] = "gate"]
    /\ UNCHANGED << mode, indexes, result, executionEndBlock, block, dkgState,
                    accepted, waitBlock, subSub, subCb, nodeSub, nodeCb,
                    ctxDone, subRet, calls, abandoned, stateRead,
                    fate, operating, signer >>
    /\ OthersUnchanged("dkg")

\* dkg.Publish fails before it reaches SubmitResult.
PublishFail(i) ==
    /\ mode = "node"
    /\ pc[i] = "publish"
    /\ pc' = [pc EXCEPT ![i] = "reconcile"]
    /\ UNCHANGED << mode, indexes, result, executionEndBlock, block, dkgState,
                    accepted, sigs, waitBlock, subSub, subCb, nodeSub, nodeCb,
                    ctxDone, subRet, calls, abandoned, stateRead,
                    fate, operating, signer >>
    /\ OthersUnchanged("dkg")

\* SubmitResult returned ret to the task: dkg.Publish hands it on. On nil the
\* task keeps result.Group.OperatingMemberIDs() (part_001:181, 203, 231); on
\* an error it enters decideSigningGroupMemberFate (part_001:217).
NodeAfterSubmit(i, ret) ==
    /\ subRet' = [subRet EXCEPT ![i] = ret]
    /\ pc' = [pc EXCEPT ![i] = IF ret = "nil" THEN "resolve" ELSE "reconcile"]
    /\ operating' =
         [operating EXCEPT ![i] =
            IF ret = "nil" THEN OperatingMemberIDs(result) ELSE @]

(***************************************************************************)
(* dkgResultSubmitter.SubmitResult, event-driven (part_001:470-565).       *)
(***************************************************************************)

\* Signature gate (part_001:476-486) and subscription (part_001:488-495).
NodeGate(i) ==
    /\ mode = "node"
    /\ pc[i] = "gate"
    /\ IF NodeSignatureGate(sigs[i])
       THEN /\ subSub' = [subSub EXCEPT ![i] = TRUE]
            /\ calls' = [calls EXCEPT ![i] = @ \cup {"OnDKGResultSubmitted"}]
            /\ pc' = [pc EXCEPT ![i] = "state"]
            /\ UNCHANGED << subRet, operating >>
       ELSE /\ NodeAfterSubmit(i, "error")
            /\ UNCHANGED << subSub, calls >>
    /\ UNCHANGED << mode, indexes, result, executionEndBlock, block, dkgState,
                    accepted, sigs, waitBlock, subCb, nodeSub, nodeCb,
                    ctxDone, abandoned, stateRead, fate,
                    signer >>
    /\ OthersUnchanged("dkg")

\* GetDKGState fails (part_001:497-500).
NodeReadStateFail(i) ==
    /\ mode = "node"
    /\ pc[i] = "state"
    /\ calls' = [calls EXCEPT ![i] = @ \cup {"GetDKGState"}]
    /\ stateRead' = [stateRead EXCEPT ![i] = "failed"]
    /\ subSub' = [subSub EXCEPT ![i] = FALSE]
    /\ UNCHANGED subCb
    /\ NodeAfterSubmit(i, "error")
    /\ UNCHANGED << mode, indexes, result, executionEndBlock, block, dkgState,
                    accepted, sigs, waitBlock, nodeSub, nodeCb, ctxDone,
                    abandoned, fate, signer >>
    /\ OthersUnchanged("dkg")

\* Pre-submission check (part_001:497-510) and, when the DKG awaits the
\* result, setupEligibilityQueue (part_001:513-519, 572-598).
NodeReadState_Ignored(i) ==
    /\ mode = "node"
    /\ pc[i] = "state"
    /\ calls' = [calls EXCEPT ![i] = @ \cup {"GetDKGState", "BlockCounter"}]
    /\ stateRead' = [stateRead EXCEPT ![i] = dkgState]
    /\ waitBlock' =
         [waitBlock EXCEPT ![i] = EligibleBlockHeight(executionEndBlock, i)]
    /\ pc' = [pc EXCEPT ![i] = "wait"]
    /\ UNCHANGED << subSub, subCb, subRet, operating >>
    /\ UNCHANGED << mode, indexes, result, executionEndBlock, block, dkgState,
                    accepted, sigs, nodeSub, nodeCb, ctxDone, abandoned, fate, signer >>
    /\ OthersUnchanged("dkg")

NodeReadState(i) ==
    /\ mode = "node"
    /\ pc[i] = "state"
    /\ stateRead' = [stateRead EXCEPT ![i] = dkgState]
    /\ IF dkgState # "AwaitingResult"
       THEN /\ calls' = [calls EXCEPT ![i] = @ \cup {"GetDKGState"}]
            /\ subSub' = [subSub EXCEPT ![i] = FALSE]
            /\ UNCHANGED subCb
            /\ NodeAfterSubmit(i, "nil")
            /\ UNCHANGED waitBlock
       ELSE /\ calls' =
                 [calls EXCEPT ![i] = @ \cup {"GetDKGState", "BlockCounter"}]
            /\ waitBlock' =
                 [waitBlock EXCEPT
                    ![i] = EligibleBlockHeight(executionEndBlock, i)]
            /\ pc' = [pc EXCEPT ![i] = "wait"]
            /\ UNCHANGED << subSub, subCb, subRet, operating >>
    /\ UNCHANGED << mode, indexes, result, executionEndBlock, block, dkgState,
                    accepted, sigs, nodeSub, nodeCb, ctxDone, abandoned, fate, signer >>
    /\ OthersUnchanged("dkg")

\* setupEligibilityQueue fails: BlockCounter or BlockHeightWaiter error
\* (part_001:517-519, 587-595).
NodeQueueFail(i) ==
    /\ mode = "node"
    /\ pc[i] = "state"
    /\ dkgState = "AwaitingResult"
    /\ calls' = [calls EXCEPT ![i] = @ \cup {"GetDKGState", "BlockCounter"}]
    /\ stateRead' = [stateRead EXCEPT ![i] = dkgState]
    /\ subSub' = [subSub EXCEPT ![i] = FALSE]
    /\ UNCHANGED subCb
    /\ NodeAfterSubmit(i, "error")
    /\ UNCHANGED << mode, indexes, result, executionEndBlock, block, dkgState,
                    accepted, sigs, waitBlock, nodeSub, nodeCb, ctxDone,
                    abandoned, fate, signer >>
    /\ OthersUnchanged("dkg")

\* select, case <-submitterEligibleChan: the waiter fired, the submitter
\* unsubscribes before it submits (part_001:523-546).
NodeEligible(i) ==
    /\ mode = "node"
    /\ pc[i] = "wait"
    /\ block >= waitBlock[i]
    /\ subSub' = [subSub EXCEPT ![i] = FALSE]
    /\ UNCHANGED subCb
    /\ pc' = [pc EXCEPT ![i] = "submit"]
    /\ UNCHANGED << mode, indexes, result, executionEndBlock, block, dkgState,
                    accepted, sigs, waitBlock, nodeSub, nodeCb, ctxDone,
                    subRet, calls, abandoned, stateRead, fate,
                    operating, signer >>
    /\ OthersUnchanged("dkg")

\* select, case <-resultSubmittedChan: another member's result was
\* submitted; leave without publishing (part_001:553-562).
NodeLeave_KeepWaiting(i) ==
    /\ mode = "node"
    /\ pc[i] = "wait"
    /\ subCb[i] = "blocked"
    /\ subCb' = [subCb EXCEPT ![i] = "done"]
    /\ abandoned' = [abandoned EXCEPT ![i] = TRUE]
    /\ UNCHANGED << mode, indexes, result, executionEndBlock, block, dkgState,
                    accepted, pc, sigs, waitBlock, subSub, nodeSub, nodeCb,
                    ctxDone, subRet, calls, stateRead, fate,
                    operating, signer >>
    /\ OthersUnchanged("dkg")

NodeLeave(i) ==
    /\ mode = "node"
    /\ pc[i] = "wait"
    /\ subCb[i] = "blocked"
    /\ subCb' = [subCb EXCEPT ![i] = "done"]
    /\ abandoned' = [abandoned EXCEPT ![i] = TRUE]
    /\ subSub' = [subSub EXCEPT ![i] = FALSE]
    /\ NodeAfterSubmit(i, "nil")
    /\ UNCHANGED << mode, indexes, result, executionEndBlock, block, dkgState,
                    accepted, sigs, waitBlock, nodeSub, nodeCb, ctxDone,
                    calls, stateRead, fate, signer >>
    /\ OthersUnchanged("dkg")

\* chain.SubmitDKGResult (part_001:548-552). The chain accepts the result
\* only while it awaits one; the call may also fail on its own.
NodeSubmit(i, ok) ==
    /\ mode = "node"
    /\ pc[i] = "submit"
    /\ calls' = [calls EXCEPT ![i] = @ \cup {"SubmitDKGResult"}]
    /\ IF ok /\ dkgState = "AwaitingResult"
       THEN /\ dkgState' = "Challenge"
            /\ accepted' = [ GroupPublicKeyBytes |-> result.groupPublicKey,
                             Misbehaved |-> result.misbehaved ]
            /\ subCb' = Emitted(subCb, subSub)
            /\ nodeCb' = Emitted(nodeCb, nodeSub)
            /\ NodeAfterSubmit(i, "nil")
       ELSE /\ NodeAfterSubmit(i, "error")
            /\ UNCHANGED << dkgState, accepted, subCb, nodeCb >>
    /\ UNCHANGED << mode, indexes, result, executionEndBlock, block, sigs,
                    waitBlock, subSub, nodeSub, ctxDone, abandoned, stateRead,
                    fate, signer >>
    /\ OthersUnchanged("dkg")

(***************************************************************************)
(* Failure reconciliation (part_001:203-229, 275-357) and signer           *)
(* registration (part_001:231-263). Every return of the task runs the      *)
(* deferred dkgResultSubscription.Unsubscribe() (part_001:189).            *)
(***************************************************************************)

TaskReturns(i) ==
    /\ pc' = [pc EXCEPT ![i] = "done"]
    /\ nodeSub' = [nodeSub EXCEPT ![i] = FALSE]

\* waitForDkgResultEvent cannot get the block counter or the waiter
\* (part_001:341-349).
ReconcileChainError(i) ==
    /\ mode = "node"
    /\ pc[i] = "reconcile"
    /\ fate' = [fate EXCEPT ![i] = "chain"]
    /\ UNCHANGED nodeCb
    /\ TaskReturns(i)
    /\ UNCHANGED << mode, indexes, result, executionEndBlock, block, dkgState,
                    accepted, sigs, waitBlock, subSub, subCb, ctxDone, subRet,
                    calls, abandoned, stateRead, operating,
                    signer >>
    /\ OthersUnchanged("dkg")

\* select, case dkgResultEvent := <-dkgResultChannel (part_001:352-353),
\* then the fate decision (part_001:289-327).
ReconcileEvent(i) ==
    /\ mode = "node"
    /\ pc[i] = "reconcile"
    /\ nodeCb[i] = "blocked"
    /\ nodeCb' = [nodeCb EXCEPT ![i] = "done"]
    /\ LET err == FateOf(i, accepted, result)
       IN  IF err = None
           THEN /\ operating' =
                     [operating EXCEPT ![i] = FateOperating(accepted, result)]
                /\ pc' = [pc EXCEPT ![i] = "resolve"]
                /\ UNCHANGED << fate, nodeSub >>
           ELSE /\ fate' = [fate EXCEPT ![i] = err]
                /\ TaskReturns(i)
                /\ UNCHANGED operating
    /\ UNCHANGED << mode, indexes, result, executionEndBlock, block, dkgState,
                    accepted, sigs, waitBlock, subSub, subCb, ctxDone, subRet,
                    calls, abandoned, stateRead, signer >>
    /\ OthersUnchanged("dkg")

\* select, case <-timeoutBlockChannel (part_001:354-355).
ReconcileTimeout(i) ==
    /\ mode = "node"
    /\ pc[i] = "reconcile"
    /\ block >= TimeoutBlock(executionEndBlock)
    /\ fate' = [fate EXCEPT ![i] = "timeout"]
    /\ UNCHANGED nodeCb
    /\ TaskReturns(i)
    /\ UNCHANGED << mode, indexes, result, executionEndBlock, block, dkgState,
                    accepted, sigs, waitBlock, subSub, subCb, ctxDone, subRet,
                    calls, abandoned, stateRead, operating,
                    signer >>
    /\ OthersUnchanged("dkg")

\* resolveFinalSigningGroupOperators and walletRegistry.registerSigner
\* (part_001:231-263); registered tells whether registerSigner succeeds.
Resolve(i, registered) ==
    /\ mode = "node"
    /\ pc[i] = "resolve"
    /\ LET ops == ResolveFinalSigningGroupOperators(
                      SelectedOperators(indexes), SortedSeq(operating[i]))
       IN  IF ops = << >>
           THEN /\ fate' = [fate EXCEPT ![i] = "resolve"]
                /\ UNCHANGED signer
           ELSE IF registered
                THEN /\ signer' = [signer EXCEPT ![i] = ops]
                     /\ fate' = [fate EXCEPT ![i] = "registered"]
                ELSE /\ fate' = [fate EXCEPT ![i] = "register"]
                     /\ UNCHANGED signer
    /\ UNCHANGED nodeCb
    /\ TaskReturns(i)
    /\ UNCHANGED << mode, indexes, result, executionEndBlock, block, dkgState,
                    accepted, sigs, waitBlock, subSub, subCb, ctxDone, subRet,
                    calls, abandoned, stateRead, operating >>
    /\ OthersUnchanged("dkg")

(***************************************************************************)
(* dkgResultSubmitter.SubmitResult, context-driven (dkg_submit.go:109-214).*)
(***************************************************************************)

\* SubmitResult is called with n signatures.
CtxCall(i, n) ==
    /\ mode = "ctx"
    /\ pc[i] = "execute"
    /\ sigs' = [sigs EXCEPT ![i] = n]
    /\ pc' = [pc EXCEPT ![i] = "cgate"]
    /\ UNCHANGED << mode, indexes, result, executionEndBlock, block, dkgState,
                    accepted, waitBlock, subSub, subCb, nodeSub, nodeCb,
                    ctxDone, subRet, calls, abandoned, stateRead,
                    fate, operating, signer >>
    /\ OthersUnchanged("dkg")

CtxReturns(i, ret) ==
    /\ subRet' = [subRet EXCEPT ![i] = ret]
    /\ pc' = [pc EXCEPT ![i] = "done"]

\* Signature gate (dkg_submit.go:115-121).
CtxGate(i) ==
    /\ mode = "ctx"
    /\ pc[i] = "cgate"
    /\ IF CtxSignatureGate(sigs[i])
       THEN /\ pc' = [pc EXCEPT ![i] = "cstate"]
            /\ UNCHANGED subRet
       ELSE CtxReturns(i, "error")
    /\ UNCHANGED << mode, indexes, result, executionEndBlock, block, dkgState,
                    accepted, sigs, waitBlock, subSub, subCb, nodeSub, nodeCb,
                    ctxDone, calls, abandoned, stateRead, fate,
                    operating, signer >>
    /\ OthersUnchanged("dkg")

\* GetDKGState fails (dkg_submit.go:123-126).
CtxReadStateFail(i) ==
    /\ mode = "ctx"
    /\ pc[i] = "cstate"
    /\ calls' = [calls EXCEPT ![i] = @ \cup {"GetDKGState"}]
    /\ stateRead' = [stateRead EXCEPT ![i] = "failed"]
    /\ CtxReturns(i, "error")
    /\ UNCHANGED << mode, indexes, result, executionEndBlock, block, dkgState,
                    accepted, sigs, waitBlock, subSub, subCb, nodeSub, nodeCb,
                    ctxDone, abandoned, fate, operating,
                    signer >>
    /\ OthersUnchanged("dkg")

\* Pre-submission check (dkg_submit.go:123-136).
CtxReadState(i) ==
    /\ mode = "ctx"
    /\ pc[i] = "cstate"
    /\ calls' = [calls EXCEPT ![i] = @ \cup {"GetDKGState"}]
    /\ stateRead' = [stateRead EXCEPT ![i] = dkgState]
    /\ IF dkgState # "AwaitingResult"
       THEN CtxReturns(i, "nil")
       ELSE /\ pc' = [pc EXCEPT ![i] = "cassemble"]
            /\ UNCHANGED subRet
    /\ UNCHANGED << mode, indexes, result, executionEndBlock, block, dkgState,
                    accepted, sigs, waitBlock, subSub, subCb, nodeSub, nodeCb,
                    ctxDone, abandoned, fate, operating,
                    signer >>
    /\ OthersUnchanged("dkg")

\* AssembleDKGResult, IsDKGResultValid, BlockCounter, CurrentBlock and the
\* set-up of the block wait (dkg_submit.go:138-192). With ok all of them
\* succeed and the submission block is computed from the current block;
\* otherwise one of them fails (or the result is invalid) and SubmitResult
\* returns the error.
CtxPrepare(i, ok) ==
    /\ mode = "ctx"
    /\ pc[i] = "cassemble"
    /\ calls' = [calls EXCEPT ![i] = @ \cup {"AssembleDKGResult"}]
    /\ IF ok
       THEN /\ waitBlock' = [waitBlock EXCEPT ![i] = SubmissionBlock(block, i)]
            /\ pc' = [pc EXCEPT ![i] = "cwait"]
            /\ UNCHANGED subRet
       ELSE /\ CtxReturns(i, "error")
            /\ UNCHANGED waitBlock
    /\ UNCHANGED << mode, indexes, result, executionEndBlock, block, dkgState,
                    accepted, sigs, subSub, subCb, nodeSub, nodeCb, ctxDone,
                    abandoned, stateRead, fate, operating,
                    signer >>
    /\ OthersUnchanged("dkg")

\* waitForBlockFn(ctx, submissionBlock) returns: the block was reached or
\* the context is done, whichever comes first (dkg_submit.go:104-108, 186).
WaitForBlockFn(i) ==
    block >= waitBlock[i] \/ ctxDone[i]

CtxWaitReturns(i) ==
    /\ mode = "ctx"
    /\ pc[i] = "cwait"
    /\ WaitForBlockFn(i)
    /\ pc' = [pc EXCEPT ![i] = "ccheck"]
    /\ UNCHANGED << mode, indexes, result, executionEndBlock, block, dkgState,
                    accepted, sigs, waitBlock, subSub, subCb, nodeSub, nodeCb,
                    ctxDone, subRet, calls, abandoned, stateRead,
                    fate, operating, signer >>
    /\ OthersUnchanged("dkg")

\* if ctx.Err() != nil { return nil } (dkg_submit.go:194-204).
CtxCheck(i) ==
    /\ mode = "ctx"
    /\ pc[i] = "ccheck"
    /\ IF ctxDone[i]
       THEN CtxReturns(i, "nil")
       ELSE /\ pc' = [pc EXCEPT ![i] = "csubmit"]
            /\ UNCHANGED subRet
    /\ UNCHANGED << mode, indexes, result, executionEndBlock, block, dkgState,
                    accepted, sigs, waitBlock, subSub, subCb, nodeSub, nodeCb,
                    ctxDone, calls, abandoned, stateRead, fate,
                    operating, signer >>
    /\ OthersUnchanged("dkg")

\* chain.SubmitDKGResult (dkg_submit.go:213).
CtxSubmit(i, ok) ==
    /\ mode = "ctx"
    /\ pc[i] = "csubmit"
    /\ calls' = [calls EXCEPT ![i] = @ \cup {"SubmitDKGResult"}]
    /\ IF ok /\ dkgState = "AwaitingResult"
       THEN /\ dkgState' = "Challenge"
            /\ accepted' = [ GroupPublicKeyBytes |-> result.groupPublicKey,
                             Misbehaved |-> result.misbehaved ]
            /\ CtxReturns(i, "nil")
       ELSE /\ CtxReturns(i, "error")
            /\ UNCHANGED << dkgState, accepted >>
    /\ UNCHANGED << mode, indexes, result, executionEndBlock, block, sigs,
                    waitBlock, subSub, subCb, nodeSub, nodeCb, ctxDone,
                    abandoned, stateRead, fate, operating, signer >>
    /\ OthersUnchanged("dkg")

(***************************************************************************)
(* The DKG publication specification.                                      *)
(***************************************************************************)
Next ==
    \/ Tick
    \/ \E key \in Keys, misbehaved \in MisbehavedSets :
          PeerSubmit(key, misbehaved)
    \/ ChainStep
    \/ \E i \in Members : CtxCancel(i)
    \/ \E i \in Members : ExecuteFail(i)
    \/ \E i \in Members : ExecuteOk(i)
    \/ \E i \in Members, n \in 1..GroupSize : Publish(i, n)
    \/ \E i \in Members : PublishFail(i)
    \/ \E i \in Members : NodeGate(i)
    \/ \E i \in Members : NodeReadStateFail(i)
    \/ \E i \in Members : NodeReadState(i)
    \/ \E i \in Members : NodeQueueFail(i)
    \/ \E i \in Members : NodeEligible(i)
    \/ \E i \in Members : NodeLeave(i)
    \/ \E i \in Members, ok \in BOOLEAN : NodeSubmit(i, ok)
    \/ \E i \in Members : ReconcileChainError(i)
    \/ \E i \in Members : ReconcileEvent(i)
    \/ \E i \in Members : ReconcileTimeout(i)
    \/ \E i \in Members, registered \in BOOLEAN : Resolve(i, registered)
    \/ \E i \in Members, n \in 1..GroupSize : CtxCall(i, n)
    \/ \E i \in Members : CtxGate(i)
    \/ \E i \in Members : CtxReadStateFail(i)
    \/ \E i \in Members : CtxReadState(i)
    \/ \E i \in Members, ok \in BOOLEAN : CtxPrepare(i, ok)
    \/ \E i \in Members : CtxWaitReturns(i)
    \/ \E i \in Members : CtxCheck(i)
    \/ \E i \in Members, ok \in BOOLEAN : CtxSubmit(i, ok)

Spec == Init /\ [][Next]_vars

TypeOK ==
    /\ mode \in {"node", "ctx"}
    /\ block \in 0..MaxBlock
    /\ dkgState \in DKGStates
    /\ \A i \in Members :
          /\ subCb[i] \in {"idle", "blocked", "done"}
          /\ nodeCb[i] \in {"idle", "blocked", "done"}
          /\ subRet[i] \in {None, "nil", "error"}

(***************************************************************************)
(* Redemption fee distribution (redemption.go:342-364).                    *)
(***************************************************************************)

\* Go's integer division and remainder truncate toward zero (b > 0).
GoRem(a, b) == IF a >= 0 THEN a % b ELSE -((-a) % b)
GoDiv(a, b) == IF a >= 0 THEN a \div b ELSE -((-a) \div b)

\* withRedemptionTotalFee(totalFee)(requests), requestsCount >= 1.
WithRedemptionTotalFee_NoRemainder(totalFee, requestsCount) ==
    LET remainder == GoRem(totalFee, requestsCount)
        feePerRequest == GoDiv(totalFee - remainder, requestsCount)
    IN  [ i \in 1..requestsCount |-> feePerRequest ]

WithRedemptionTotalFee(totalFee, requestsCount) ==
    LET remainder == GoRem(totalFee, requestsCount)
        feePerRequest == GoDiv(totalFee - remainder, requestsCount)
    IN  [ i \in 1..requestsCount |->
            IF i = requestsCount
            THEN feePerRequest + remainder
            ELSE feePerRequest ]

\* The total fees tried: a range around zero and the 1001 of the fee-split
\* scenario.
FeeInputs == (-MaxFee..MaxFee) \cup {1001}

InitFee ==
    /\ OthersIdle("fee")
    /\ feeTotal \in FeeInputs
    /\ feeCount \in 0..MaxRequests
    /\ feeShares = << >>
    /\ feePc = "input"

\* The fee distribution function is applied to the requests. With no
\* request the remainder computation divides by zero and panics.
DistributeFee ==
    /\ feePc = "input"
    /\ IF feeCount = 0
       THEN /\ feePc' = "panic"
            /\ UNCHANGED feeShares
       ELSE /\ feePc' = "done"
            /\ feeShares' = WithRedemptionTotalFee(feeTotal, feeCount)
    /\ UNCHANGED << feeTotal, feeCount >>
    /\ OthersUnchanged("fee")

NextFee == DistributeFee

SpecFee == InitFee /\ [][NextFee]_vars

(***************************************************************************)
(* assembleRedemptionTransaction (redemption.go:441-553). The 64-bit       *)
(* integers of the code are modelled with ValueBits bits: amounts are      *)
(* unsigned (0 .. Modulus - 1), output values and fee shares are signed    *)
(* (-Modulus/2 .. Modulus/2 - 1), and arithmetic wraps as Go's does.       *)
(***************************************************************************)
Modulus == 2 ^ ValueBits
MaxInt64 == (Modulus \div 2) - 1
MinInt64 == -(Modulus \div 2)

\* The value of an unsigned and of a signed 64-bit result.
Uint64(x) == x % Modulus
Int64(x) == LET u == x % Modulus IN IF u > MaxInt64 THEN u - Modulus ELSE u

RedemptionChangeFirst == 0
RedemptionChangeLast == 1

\* resolvedShape (redemption.go:449-452).
ResolvedShape_AlwaysGiven(shape) ==
    IF Len(shape) >= 1 THEN shape[1] ELSE RedemptionChangeLast

ResolvedShape(shape) ==
    IF Len(shape) = 1 THEN shape[1] ELSE RedemptionChangeFirst

\* redemptionOutputValue (redemption.go:492-497).
RedemptionOutputValue_NoTreasuryFee(request, feeShare) ==
    Int64(Int64(Uint64(request.RequestedAmount)) - feeShare)

RedemptionOutputValue(request, feeShare) ==
    LET redeemableAmount ==
            Int64(Uint64(request.RequestedAmount - request.TreasuryFee))
    IN  Int64(redeemableAmount - feeShare)

\* The redemption outputs, in the order of the loop of redemption.go:488-508.
RedemptionOutputs(requests, shares) ==
    [ i \in 1..Len(requests) |->
        [ Value |-> RedemptionOutputValue(requests[i], shares[i]),
          PublicKeyScript |-> requests[i].RedeemerOutputScript ] ]

\* A running int64 total (totalFee += ..., totalRedemptionOutputsValue += ...).
RECURSIVE Int64Total(_)
Int64Total(q) ==
    IF q = << >> THEN 0
    ELSE Int64(Int64Total(SubSeq(q, 1, Len(q) - 1)) + q[Len(q)])

\* changeOutputValue (redemption.go:516-518).
ChangeOutputValue_NoFee(inputsValue, outputs, shares) ==
    Int64(inputsValue
            - Int64Total([ i \in 1..Len(outputs) |-> outputs[i].Value ]))

ChangeOutputValue(inputsValue, outputs, shares) ==
    LET totalRedemptionOutputsValue ==
            Int64Total([ i \in 1..Len(outputs) |-> outputs[i].Value ])
        totalFee == Int64Total(shares)
    IN  Int64(Int64(inputsValue - totalRedemptionOutputsValue) - totalFee)

\* bitcoin.PayToWitnessPublicKeyHash(bitcoin.PublicKeyHash(walletPublicKey)).
WalletChangeScript == "p2wpkh(wallet)"

\* Pending requests are keyed by their redeemer output script, so the
\* requests of one transaction carry distinct scripts.
RedeemerOutputScripts == << "sA", "sB", "sC", "sD" >>

TxRequestLists ==
    UNION { { [ i \in 1..n |->
                [ RedeemerOutputScript |-> RedeemerOutputScripts[i],
                  RequestedAmount |-> f[i][1],
                  TreasuryFee |-> f[i][2] ] ] :
              f \in [ 1..n -> {1, 6, Modulus - 1} \X {0, 2} ] } :
            n \in 0..MaxTxRequests }

InitTx ==
    /\ OthersIdle("tx")
    /\ txRequests \in TxRequestLists
    /\ txFeeShares \in [ 1..Len(txRequests) -> {-1, 1, MaxInt64} ]
    /\ txMainUtxo \in { << >>, << 6 >>, << MaxInt64 >> }
    /\ txShape \in { << >>, << RedemptionChangeFirst >>,
                     << RedemptionChangeLast >>, << 2 >> }
    /\ txOutputs = << >>
    /\ txPc = "ready"

\* One call of assembleRedemptionTransaction. inputOk and scriptOk are the
\* outcomes of builder.AddPublicKeyHashInput and PayToWitnessPublicKeyHash.
AssembleRedemptionTransaction(inputOk, scriptOk) ==
    /\ txPc = "ready"
    /\ IF txMainUtxo = << >> \/ Len(txRequests) < 1 \/ ~inputOk
       THEN /\ txPc' = "error"
            /\ UNCHANGED txOutputs
       ELSE LET outputs == RedemptionOutputs(txRequests, txFeeShares)
                changeOutputValue ==
                    ChangeOutputValue(txMainUtxo[1], outputs, txFeeShares)
                changeOutput == [ Value |-> changeOutputValue,
                                  PublicKeyScript |-> WalletChangeScript ]
                resolvedShape == ResolvedShape(txShape)
            IN  IF changeOutputValue > 0
                THEN IF ~scriptOk
                     THEN /\ txPc' = "error"
                          /\ UNCHANGED txOutputs
                     ELSE IF resolvedShape = RedemptionChangeFirst
                     THEN /\ txPc' = "built"
                          /\ txOutputs' = << changeOutput >> \o outputs
                     ELSE IF resolvedShape = RedemptionChangeLast
                     THEN /\ txPc' = "built"
                          /\ txOutputs' = Append(outputs, changeOutput)
                     ELSE /\ txPc' = "panic"
                          /\ UNCHANGED txOutputs
                ELSE /\ txPc' = "built"
                     /\ txOutputs' = outputs
    /\ UNCHANGED << txRequests, txFeeShares, txMainUtxo, txShape >>
    /\ OthersUnchanged("tx")

NextTx == \E inputOk, scriptOk \in BOOLEAN :
              AssembleRedemptionTransaction(inputOk, scriptOk)

SpecTx == InitTx /\ [][NextTx]_vars

(***************************************************************************)
(* redemptionAction.execute (redemption.go:160-259). Block numbers are     *)
(* uint64 in the code and BlockBits bits wide here.                        *)
(***************************************************************************)
redemptionProposalValidityBlocks == 600
redemptionSigningTimeoutSafetyMarginBlocks == 300

BlockModulus == 2 ^ BlockBits

InitRedeem ==
    /\ OthersIdle("redeem")
    /\ proposalExpiryBlock \in
           { 0, redemptionSigningTimeoutSafetyMarginBlocks - 1,
             redemptionSigningTimeoutSafetyMarginBlocks,
             redemptionSigningTimeoutSafetyMarginBlocks + 1,
             redemptionProposalValidityBlocks, BlockModulus - 1 }
    /\ redeemRequests \in 0..MaxTxRequests
    /\ redeemPc = "validateProposal"
    /\ redeemPhases = << >>
    /\ redeemPassed = {}
    /\ redeemErr = None
    /\ signTimeoutBlock = 0

\* A step of execute() starts; it returns nil and execute() goes on to the
\* next step, or it returns an error and execute() returns it wrapped.
RedeemStep(step, ok, next, err) ==
    /\ redeemPc = step
    /\ redeemPhases' = Append(redeemPhases, step)
    /\ IF ok
       THEN /\ redeemPc' = next
            /\ redeemPassed' = redeemPassed \cup {step}
            /\ UNCHANGED redeemErr
       ELSE /\ redeemPc' = "failed"
            /\ redeemErr' = err
            /\ UNCHANGED redeemPassed
    /\ UNCHANGED << proposalExpiryBlock, redeemRequests >>
    /\ OthersUnchanged("redeem")

\* redemption.go:167-175.
ValidateProposal(ok) ==
    /\ RedeemStep("validateProposal", ok, "determineMainUtxo",
                  "validate proposal step failed")
    /\ UNCHANGED signTimeoutBlock

\* redemption.go:177-193: an error, or no main UTXO at all, ends execute().
DetermineMainUtxo(outcome) ==
    /\ RedeemStep("determineMainUtxo", outcome = "utxo", "ensureWalletSynced",
                  IF outcome = "nil"
                  THEN "redeeming wallet has no main UTXO"
                  ELSE "error while determining wallet's main UTXO")
    /\ UNCHANGED signTimeoutBlock

\* redemption.go:195-207.
EnsureWalletSynced_ErrorIgnored(ok) ==
    /\ redeemPc = "ensureWalletSynced"
    /\ redeemPhases' = Append(redeemPhases, "ensureWalletSynced")
    /\ redeemPc' = "assembleTx"
    /\ redeemPassed' = IF ok THEN redeemPassed \cup {"ensureWalletSynced"}
                       ELSE redeemPassed
    /\ UNCHANGED << proposalExpiryBlock, redeemRequests, redeemErr,
                    signTimeoutBlock >>
    /\ OthersUnchanged("redeem")

EnsureWalletSynced(ok) ==
    /\ RedeemStep("ensureWalletSynced", ok, "assembleTx",
                  "error while ensuring wallet state is synced")
    /\ UNCHANGED signTimeoutBlock

\* redemption.go:209-222: assembleRedemptionTransaction fails without a
\* request (redemption.go:458-460), or when the builder does (inputOk).
AssembleTx(inputOk) ==
    /\ RedeemStep("assembleTx", redeemRequests >= 1 /\ inputOk, "signTx",
                  "error while assembling redemption transaction")
    /\ UNCHANGED signTimeoutBlock

\* redemption.go:228-241: the expiry check, then signTransaction with the
\* timeout block proposalExpiryBlock - signingTimeoutSafetyMarginBlocks.
SignTx_NoExpiryCheck(ok) ==
    /\ RedeemStep("signTx", ok, "broadcastTx",
                  "sign transaction step failed")
    /\ signTimeoutBlock' =
           (proposalExpiryBlock - redemptionSigningTimeoutSafetyMarginBlocks)
               % BlockModulus

SignTx(ok) ==
    IF proposalExpiryBlock < redemptionSigningTimeoutSafetyMarginBlocks
    THEN /\ redeemPc = "signTx"
         /\ redeemPc' = "failed"
         /\ redeemErr' = "invalid proposal expiry block"
         /\ UNCHANGED << proposalExpiryBlock, redeemRequests, redeemPhases,
                         redeemPassed, signTimeoutBlock >>
         /\ OthersUnchanged("redeem")
    ELSE /\ RedeemStep("signTx", ok, "broadcastTx",
                       "sign transaction step failed")
         /\ signTimeoutBlock' =
                (proposalExpiryBlock
                    - redemptionSigningTimeoutSafetyMarginBlocks)
                    % BlockModulus

\* redemption.go:248-258.
BroadcastTx(ok) ==
    /\ RedeemStep("broadcastTx", ok, "done",
                  "broadcast transaction step failed")
    /\ UNCHANGED signTimeoutBlock

NextRedeem ==
    \/ \E ok \in BOOLEAN : ValidateProposal(ok)
    \/ \E outcome \in {"utxo", "nil", "error"} : DetermineMainUtxo(outcome)
    \/ \E ok \in BOOLEAN : EnsureWalletSynced(ok)
    \/ \E inputOk \in BOOLEAN : AssembleTx(inputOk)
    \/ \E ok \in BOOLEAN : SignTx(ok)
    \/ \E ok \in BOOLEAN : BroadcastTx(ok)

SpecRedeem == InitRedeem /\ [][NextRedeem]_vars

(***************************************************************************)
(* The Relay library (messages.js:148-438). A call either goes through or  *)
(* reverts; a revert leaves the storage as it was.                         *)
(***************************************************************************)

\* Relay entries, and uint256(keccak256(entry)): a fixed function that
\* spreads the entries over the residues of the group size.
Entries == 1..MaxEntry
Keccak256(entry) == 5 * entry + 1

\* isRequestInProgress (messages.js:339-345).
IsRequestInProgress_Never == FALSE

IsRequestInProgress == currentRequest.id # 0

\* hasRequestTimedOut (messages.js:349-362).
HasRequestTimedOut ==
    LET relayEntryTimeout ==
            (RelayGroupSize * relayEntrySubmissionEligibilityDelay)
                + relayEntryHardTimeout
    IN  /\ IsRequestInProgress
        /\ relayBlock > currentRequest.startBlock + relayEntryTimeout

\* getEligibilityRange (messages.js:372-401) at block b for a request
\* started at block s, with eligibility delay d > 0.
EligibilityRange_NoCap(entry, groupSize, b, s, d) ==
    LET firstEligibleIndex == (Keccak256(entry) % groupSize) + 1
        shift == (b - s) \div d
        lastEligibleIndex == firstEligibleIndex + shift
    IN  [ first |-> firstEligibleIndex,
          last |-> IF lastEligibleIndex > groupSize
                   THEN lastEligibleIndex - groupSize
                   ELSE lastEligibleIndex ]

EligibilityRange(entry, groupSize, b, s, d) ==
    LET firstEligibleIndex == (Keccak256(entry) % groupSize) + 1
        uncapped == (b - s) \div d
        shift == IF uncapped > groupSize - 1 THEN groupSize - 1 ELSE uncapped
        lastEligibleIndex == firstEligibleIndex + shift
    IN  [ first |-> firstEligibleIndex,
          last |-> IF lastEligibleIndex > groupSize
                   THEN lastEligibleIndex - groupSize
                   ELSE lastEligibleIndex ]

\* isEligible (messages.js:410-437).
IsEligible(submitterIndex, firstEligibleIndex, lastEligibleIndex, groupSize) ==
    IF firstEligibleIndex <= lastEligibleIndex
    THEN /\ firstEligibleIndex <= submitterIndex
         /\ submitterIndex <= lastEligibleIndex
    ELSE \/ (1 <= submitterIndex /\ submitterIndex <= lastEligibleIndex)
         \/ (firstEligibleIndex <= submitterIndex
                /\ submitterIndex <= groupSize)

\* The loop of messages.js:272-285, from i on.
RECURSIVE PunishedMembersIndexes(_, _, _)
PunishedMembersIndexes(i, submitterIndex, lastEligibleIndex) ==
    LET index == IF i > RelayGroupSize THEN i - RelayGroupSize ELSE i
    IN  IF index = submitterIndex THEN << >>
        ELSE IF index = lastEligibleIndex THEN << index >>
        ELSE << index >> \o
             PunishedMembersIndexes(i + 1, submitterIndex, lastEligibleIndex)

InitRelay ==
    /\ OthersIdle("relay")
    /\ RelayIdle

\* A call that reverts with the given error.
Reverts(fn, error) ==
    /\ relayCall' = [ NoCall EXCEPT !.fn = fn, !.error = error ]
    /\ UNCHANGED RelayData

\* A block is mined.
RelayTick ==
    /\ relayBlock < MaxRelayBlock
    /\ relayBlock' = relayBlock + 1
    /\ UNCHANGED << RelayData, relayCall >>
    /\ OthersUnchanged("relay")

\* requestEntry (messages.js:192-217). paid: safeTransferFrom goes through.
RequestEntry(groupId, paid) ==
    /\ IsRequestInProgress \/ requestCount < MaxRelayRequests
    /\ IF IsRequestInProgress
       THEN Reverts("requestEntry", "Another relay request in progress")
       ELSE IF ~paid
       THEN Reverts("requestEntry", "SafeERC20: low-level call failed")
       ELSE /\ requestCount' = requestCount + 1
            /\ currentRequest' = [ id |-> requestCount + 1,
                                   groupId |-> groupId,
                                   startBlock |-> relayBlock ]
            /\ relayCall' = [ NoCall EXCEPT !.fn = "requestEntry" ]
            /\ UNCHANGED << previousEntry,
                            relayEntrySubmissionEligibilityDelay,
                            relayEntryHardTimeout >>
    /\ UNCHANGED relayBlock
    /\ OthersUnchanged("relay")

\* submitEntry (messages.js:227-302). isSender: group.members[index - 1] is
\* msg.sender; blsValid: BLS.verify accepts the entry.
SubmitEntry_KeepsRequest(submitterIndex, entry, isSender, blsValid) ==
    /\ IF ~IsRequestInProgress
       THEN Reverts("submitEntry", "No relay request in progress")
       ELSE IF HasRequestTimedOut
       THEN Reverts("submitEntry", "Relay request timed out")
       ELSE IF ~(submitterIndex > 0 /\ submitterIndex <= RelayGroupSize)
       THEN Reverts("submitEntry", "Invalid submitter index")
       ELSE IF ~isSender
       THEN Reverts("submitEntry", "Unexpected submitter index")
       ELSE IF ~blsValid
       THEN Reverts("submitEntry", "Invalid entry")
       ELSE IF relayEntrySubmissionEligibilityDelay = 0
       THEN Reverts("submitEntry", "Panic: division by zero")
       ELSE LET range == EligibilityRange(entry, RelayGroupSize, relayBlock,
                             currentRequest.startBlock,
                             relayEntrySubmissionEligibilityDelay)
            IN  IF ~IsEligible(submitterIndex, range.first, range.last,
                               RelayGroupSize)
                THEN Reverts("submitEntry", "Submitter is not eligible")
                ELSE /\ previousEntry' = entry
                     /\ currentRequest' = currentRequest
                     /\ relayCall' =
                            [ fn |-> "submitEntry", error |-> None,
                              first |-> range.first, last |-> range.last,
                              punished |-> PunishedMembersIndexes(
                                  range.first, submitterIndex, range.last) ]
                     /\ UNCHANGED << requestCount,
                                     relayEntrySubmissionEligibilityDelay,
                                     relayEntryHardTimeout >>
    /\ UNCHANGED relayBlock
    /\ OthersUnchanged("relay")

SubmitEntry(submitterIndex, entry, isSender, blsValid) ==
    /\ IF ~IsRequestInProgress
       THEN Reverts("submitEntry", "No relay request in progress")
       ELSE IF HasRequestTimedOut
       THEN Reverts("submitEntry", "Relay request timed out")
       ELSE IF ~(submitterIndex > 0 /\ submitterIndex <= RelayGroupSize)
       THEN Reverts("submitEntry", "Invalid submitter index")
       ELSE IF ~isSender
       THEN Reverts("submitEntry", "Unexpected submitter index")
       ELSE IF ~blsValid
       THEN Reverts("submitEntry", "Invalid entry")
       ELSE IF relayEntrySubmissionEligibilityDelay = 0
       THEN Reverts("submitEntry", "Panic: division by zero")
       ELSE LET range == EligibilityRange(entry, RelayGroupSize, relayBlock,
                             currentRequest.startBlock,
                             relayEntrySubmissionEligibilityDelay)
            IN  IF ~IsEligible(submitterIndex, range.first, range.last,
                               RelayGroupSize)
                THEN Reverts("submitEntry", "Submitter is not eligible")
                ELSE /\ previousEntry' = entry
                     /\ currentRequest' = NoRequest
                     /\ relayCall' =
                            [ fn |-> "submitEntry", error |-> None,
                              first |-> range.first, last |-> range.last,
                              punished |-> PunishedMembersIndexes(
                                  range.first, submitterIndex, range.last) ]
                     /\ UNCHANGED << requestCount,
                                     relayEntrySubmissionEligibilityDelay,
                                     relayEntryHardTimeout >>
    /\ UNCHANGED relayBlock
    /\ OthersUnchanged("relay")

\* setRelayEntrySubmissionEligibilityDelay (messages.js:316-325).
SetRelayEntrySubmissionEligibilityDelay(newDelay) ==
    /\ IF IsRequestInProgress
       THEN Reverts("setRelayEntrySubmissionEligibilityDelay",
                    "Relay request in progress")
       ELSE /\ relayEntrySubmissionEligibilityDelay' = newDelay
            /\ relayCall' = [ NoCall EXCEPT
                   !.fn = "setRelayEntrySubmissionEligibilityDelay" ]
            /\ UNCHANGED << requestCount, previousEntry, currentRequest,
                            relayEntryHardTimeout >>
    /\ UNCHANGED relayBlock
    /\ OthersUnchanged("relay")

\* setRelayEntryHardTimeout (messages.js:328-336).
SetRelayEntryHardTimeout(newTimeout) ==
    /\ IF IsRequestInProgress
       THEN Reverts("setRelayEntryHardTimeout", "Relay request in progress")
       ELSE /\ relayEntryHardTimeout' = newTimeout
            /\ relayCall' = [ NoCall EXCEPT !.fn = "setRelayEntryHardTimeout" ]
            /\ UNCHANGED << requestCount, previousEntry, currentRequest,
                            relayEntrySubmissionEligibilityDelay >>
    /\ UNCHANGED relayBlock
    /\ OthersUnchanged("relay")

\* getEligibilityRange as a view call, for any group size.
GetEligibilityRange(entry, groupSize) ==
    /\ IF relayEntrySubmissionEligibilityDelay = 0
       THEN Reverts("getEligibilityRange", "Panic: division by zero")
       ELSE LET range == EligibilityRange(entry, groupSize, relayBlock,
                             currentRequest.startBlock,
                             relayEntrySubmissionEligibilityDelay)
            IN  /\ relayCall' = [ NoCall EXCEPT
                       !.fn = "getEligibilityRange",
                       !.first = range.first, !.last = range.last ]
                /\ UNCHANGED RelayData
    /\ UNCHANGED relayBlock
    /\ OthersUnchanged("relay")

NextRelay ==
    \/ RelayTick
    \/ \E groupId \in 1..2, paid \in BOOLEAN : RequestEntry(groupId, paid)
    \/ \E submitterIndex \in 0..(RelayGroupSize + 1), entry \in Entries,
          isSender, blsValid \in BOOLEAN :
            SubmitEntry(submitterIndex, entry, isSender, blsValid)
    \/ \E newDelay \in {0, 1, 2} :
            SetRelayEntrySubmissionEligibilityDelay(newDelay)
    \/ \E newTimeout \in {0, 1} :
            SetRelayEntryHardTimeout(newTimeout)
    \/ \E entry \in Entries, groupSize \in 1..RelayGroupSize :
            GetEligibilityRange(entry, groupSize)

SpecRelay == InitRelay /\ [][NextRelay]_vars

(***************************************************************************)
(* The local broadcast channel driven by TestUnregisterHandler             *)
(* (part_002:125-230): Recv registers a handler, UnregisterRecv removes    *)
(* the handlers of a type, Send hands the message to every registered      *)
(* handler, and the handlers fire concurrently.                            *)
(***************************************************************************)
HandlerTypes == {"a", "b", "z"}

InitChan ==
    /\ OthersIdle("chan")
    /\ ChanIdle

\* The calls of one kind made so far.
ChanCalls(op) == { k \in 1..Len(chanLog) : chanLog[k].op = op }

\* localChannel.Recv(handler).
Recv(handlerType) ==
    /\ ~chanSent
    /\ Cardinality(ChanCalls("Recv")) < MaxHandlers
    /\ chanLog' = Append(chanLog, [ op |-> "Recv", type |-> handlerType ])
    /\ chanHandlers' = Append(chanHandlers, Len(chanLog) + 1)
    /\ UNCHANGED << chanSent, chanPending, chanFired >>
    /\ OthersUnchanged("chan")

\* The handlers left by UnregisterRecv(handlerType).
RemoveHandlers_FirstOnly(handlers, handlerType) ==
    LET found == { k \in 1..Len(handlers) :
                     chanLog[handlers[k]].type = handlerType }
    IN  IF found = {} THEN handlers
        ELSE LET first == CHOOSE k \in found : \A j \in found : k <= j
             IN  SubSeq(handlers, 1, first - 1)
                     \o SubSeq(handlers, first + 1, Len(handlers))

RemoveHandlers(handlers, handlerType) ==
    SelectSeq(handlers, LAMBDA h : chanLog[h].type # handlerType)

\* localChannel.UnregisterRecv(handlerType).
UnregisterRecv(handlerType) ==
    /\ ~chanSent
    /\ Cardinality(ChanCalls("UnregisterRecv")) < MaxUnregistrations
    /\ chanLog' = Append(chanLog,
                         [ op |-> "UnregisterRecv", type |-> handlerType ])
    /\ chanHandlers' = RemoveHandlers(chanHandlers, handlerType)
    /\ UNCHANGED << chanSent, chanPending, chanFired >>
    /\ OthersUnchanged("chan")

\* localChannel.Send(message): the message goes to every registered handler.
Send ==
    /\ ~chanSent
    /\ chanSent' = TRUE
    /\ chanPending' = { chanHandlers[k] : k \in 1..Len(chanHandlers) }
    /\ UNCHANGED << chanLog, chanHandlers, chanFired >>
    /\ OthersUnchanged("chan")

\* One handler is called with the message.
Fire(h) ==
    /\ h \in chanPending
    /\ chanPending' = chanPending \ {h}
    /\ chanFired' = Append(chanFired, h)
    /\ UNCHANGED << chanLog, chanHandlers, chanSent >>
    /\ OthersUnchanged("chan")

NextChan ==
    \/ \E handlerType \in HandlerTypes : Recv(handlerType)
    \/ \E handlerType \in HandlerTypes : UnregisterRecv(handlerType)
    \/ Send
    \/ \E h \in chanPending : Fire(h)

SpecChan == InitChan /\ [][NextChan]_vars

(***************************************************************************)
(* The parameter pool driven by the tests of part_003, over the            *)
(* mockPersistence of part_003:210-258. Parameters are positive numbers:   *)
(* 1..MaxPersisted may be persisted before the pool starts, generateFn     *)
(* returns MaxPersisted + 1, MaxPersisted + 2, ...                         *)
(***************************************************************************)

\* newTestPoolWithPersistence (part_003:182-208): nothing is loaded or
\* generated yet. No more parameters are persisted than the pool's target
\* size, as in TestReadAll and TestDelete (part_003:127-167).
InitPool ==
    /\ OthersIdle("pool")
    /\ poolTargetSize \in 1..MaxTargetSize
    /\ poolGenerateFn \in {"values", "nil"}
    /\ poolStorage \in { s \in SUBSET (1..MaxPersisted) :
                           Cardinality(s) <= poolTargetSize }
    /\ poolParams = << >>
    /\ poolPc = "new"
    /\ poolCandidate = 0
    /\ poolGenerated = 0
    /\ poolStop = FALSE
    /\ poolGot = << >>

\* mockPersistence.Save (part_003:215-221): the storage is a map keyed by
\* the element's decimal string, which names one number only, so it holds
\* a set of numbers.
Save(storage, element) == storage \cup {element}

\* mockPersistence.Delete (part_003:223-229).
Delete_Nothing(storage, element) == storage

Delete(storage, element) == storage \ {element}

\* mockPersistence.ReadAll (part_003:231-244): the stored parameters in
\* ascending order.
ReadAll(storage) == SortedSeq(storage)

\* NewParameterPool: the persisted parameters are loaded, then the
\* generator is scheduled.
NewParameterPool_NoLoad ==
    /\ poolPc = "new"
    /\ poolParams' = << >>
    /\ poolPc' = "generate"
    /\ UNCHANGED << poolTargetSize, poolGenerateFn, poolStorage,
                    poolCandidate, poolGenerated, poolStop, poolGot >>
    /\ OthersUnchanged("pool")

NewParameterPool ==
    /\ poolPc = "new"
    /\ poolParams' = ReadAll(poolStorage)
    /\ poolPc' = "generate"
    /\ UNCHANGED << poolTargetSize, poolGenerateFn, poolStorage,
                    poolCandidate, poolGenerated, poolStop, poolGot >>
    /\ OthersUnchanged("pool")

\* The generator calls generateFn while it is not stopped and the pool is
\* below its target. The default generateFn (part_003:192-195) returns a
\* new parameter, the time in milliseconds after a sleep; the other one
\* (part_003:46-49, 92-95) waits for its context to be done.
Generate_IgnoresStop ==
    /\ poolPc = "generate"
    /\ Len(poolParams) < poolTargetSize
    /\ poolGenerated' = poolGenerated + 1
    /\ IF poolGenerateFn = "values"
       THEN /\ poolCandidate' = MaxPersisted + poolGenerated + 1
            /\ poolPc' = "generated"
       ELSE /\ poolCandidate' = 0
            /\ poolPc' = "waiting"
    /\ UNCHANGED << poolTargetSize, poolGenerateFn, poolStorage, poolParams,
                    poolStop, poolGot >>
    /\ OthersUnchanged("pool")

Generate_StopsShort ==
    /\ poolPc = "generate"
    /\ ~poolStop
    /\ Len(poolParams) + 1 < poolTargetSize
    /\ poolGenerated' = poolGenerated + 1
    /\ IF poolGenerateFn = "values"
       THEN /\ poolCandidate' = MaxPersisted + poolGenerated + 1
            /\ poolPc' = "generated"
       ELSE /\ poolCandidate' = 0
            /\ poolPc' = "waiting"
    /\ UNCHANGED << poolTargetSize, poolGenerateFn, poolStorage, poolParams,
                    poolStop, poolGot >>
    /\ OthersUnchanged("pool")

Generate ==
    /\ poolPc = "generate"
    /\ ~poolStop
    /\ Len(poolParams) < poolTargetSize
    /\ poolGenerated' = poolGenerated + 1
    /\ IF poolGenerateFn = "values"
       THEN /\ poolCandidate' = MaxPersisted + poolGenerated + 1
            /\ poolPc' = "generated"
       ELSE /\ poolCandidate' = 0
            /\ poolPc' = "waiting"
    /\ UNCHANGED << poolTargetSize, poolGenerateFn, poolStorage, poolParams,
                    poolStop, poolGot >>
    /\ OthersUnchanged("pool")

\* The generateFn that waits for its context returns nil (0 here) once the
\* scheduler is stopped (part_003:93-94).
GenerateReturnsNil ==
    /\ poolPc = "waiting"
    /\ poolStop
    /\ poolCandidate' = 0
    /\ poolPc' = "generated"
    /\ UNCHANGED << poolTargetSize, poolGenerateFn, poolStorage, poolParams,
                    poolGenerated, poolStop, poolGot >>
    /\ OthersUnchanged("pool")

\* A generated parameter is saved and put into the pool, in one step under
\* the pool's lock; a nil result is dropped.
Store_NotSaved ==
    /\ poolPc = "generated"
    /\ IF poolCandidate = 0
       THEN UNCHANGED << poolStorage, poolParams >>
       ELSE /\ poolStorage' = poolStorage
            /\ poolParams' = Append(poolParams, poolCandidate)
    /\ poolCandidate' = 0
    /\ poolPc' = "generate"
    /\ UNCHANGED << poolTargetSize, poolGenerateFn, poolGenerated, poolStop,
                    poolGot >>
    /\ OthersUnchanged("pool")

Store_NilAdded ==
    /\ poolPc = "generated"
    /\ poolStorage' = Save(poolStorage, poolCandidate)
    /\ poolParams' = Append(poolParams, poolCandidate)
    /\ poolCandidate' = 0
    /\ poolPc' = "generate"
    /\ UNCHANGED << poolTargetSize, poolGenerateFn, poolGenerated, poolStop,
                    poolGot >>
    /\ OthersUnchanged("pool")

Store ==
    /\ poolPc = "generated"
    /\ IF poolCandidate = 0
       THEN UNCHANGED << poolStorage, poolParams >>
       ELSE /\ poolStorage' = Save(poolStorage, poolCandidate)
            /\ poolParams' = Append(poolParams, poolCandidate)
    /\ poolCandidate' = 0
    /\ poolPc' = "generate"
    /\ UNCHANGED << poolTargetSize, poolGenerateFn, poolGenerated, poolStop,
                    poolGot >>
    /\ OthersUnchanged("pool")

\* scheduler.stop().
Stop ==
    /\ poolPc # "new"
    /\ ~poolStop
    /\ poolStop' = TRUE
    /\ UNCHANGED << poolTargetSize, poolGenerateFn, poolStorage, poolParams,
                    poolPc, poolCandidate, poolGenerated, poolGot >>
    /\ OthersUnchanged("pool")

\* The generator sees the stop signal before its next call and ends.
GeneratorStops ==
    /\ poolPc = "generate"
    /\ poolStop
    /\ poolPc' = "stopped"
    /\ UNCHANGED << poolTargetSize, poolGenerateFn, poolStorage, poolParams,
                    poolCandidate, poolGenerated, poolStop, poolGot >>
    /\ OthersUnchanged("pool")

\* pool.GetNow(): the oldest parameter is taken out of the pool and deleted
\* from persistence (mockPersistence.Delete, part_003:223-229), or the pool
\* is empty.
GetNow_NotDeleted ==
    /\ poolPc \notin {"new", "idle"}
    /\ Len(poolGot) < MaxGetNow
    /\ poolParams # << >>
    /\ poolGot' = Append(poolGot, [ param |-> Head(poolParams),
                                    err |-> None ])
    /\ poolParams' = Tail(poolParams)
    /\ UNCHANGED << poolTargetSize, poolGenerateFn, poolPc, poolCandidate,
                    poolGenerated, poolStop, poolStorage >>
    /\ OthersUnchanged("pool")

GetNow_NotRemoved ==
    /\ poolPc \notin {"new", "idle"}
    /\ Len(poolGot) < MaxGetNow
    /\ poolParams # << >>
    /\ poolGot' = Append(poolGot, [ param |-> Head(poolParams),
                                    err |-> None ])
    /\ poolStorage' = Delete(poolStorage, Head(poolParams))
    /\ UNCHANGED << poolTargetSize, poolGenerateFn, poolPc, poolCandidate,
                    poolGenerated, poolStop, poolParams >>
    /\ OthersUnchanged("pool")

GetNow ==
    /\ poolPc \notin {"new", "idle"}
    /\ Len(poolGot) < MaxGetNow
    /\ IF poolParams = << >>
       THEN /\ poolGot' = Append(poolGot, [ param |-> 0,
                                            err |-> "pool is empty" ])
            /\ UNCHANGED << poolParams, poolStorage >>
       ELSE /\ poolGot' = Append(poolGot, [ param |-> Head(poolParams),
                                            err |-> None ])
            /\ poolParams' = Tail(poolParams)
            /\ poolStorage' = Delete(poolStorage, Head(poolParams))
    /\ UNCHANGED << poolTargetSize, poolGenerateFn, poolPc, poolCandidate,
                    poolGenerated, poolStop >>
    /\ OthersUnchanged("pool")

NextPool ==
    \/ NewParameterPool
    \/ Generate
    \/ GenerateReturnsNil
    \/ Store
    \/ Stop
    \/ GeneratorStops
    \/ GetNow

SpecPool == InitPool /\ [][NextPool]_vars

\* The generator is a goroutine of its own: it is never starved while it
\* has a step to take.
SpecPoolLive ==
    /\ SpecPool
    /\ WF_vars(NewParameterPool)
    /\ WF_vars(Generate)
    /\ WF_vars(Store)

(***************************************************************************)
(* The SPV maintainer (part_004:648-985) for one wallet. The chain holds   *)
(* the deposits and the wallet's main UTXO; the Bitcoin chain holds the    *)
(* wallet's recent transactions, which spend outpoints: d1 and d2 are      *)
(* revealed deposits, m is an output of the wallet, x is anything else.    *)
(***************************************************************************)
Outpoints == {"d1", "d2", "m", "x"}

\* The inputs of a transaction: no outpoint is spent twice.
SpvInputLists ==
    UNION { { q \in [1..n -> Outpoints] :
                \A a, b \in 1..n : a # b => q[a] # q[b] } :
            n \in 0..MaxSpvInputs }

SpvTransactions == [ outputs : {1, 2}, inputs : SpvInputLists ]

\* The confirmed transactions of a wallet: no two spend the same outpoint.
SpvTransactionLists ==
    UNION { { l \in [1..n -> SpvTransactions] :
                \A a, b \in 1..n : a # b =>
                    \A i \in 1..Len(l[a].inputs), j \in 1..Len(l[b].inputs) :
                        l[a].inputs[i] # l[b].inputs[j] } :
            n \in 0..MaxSpvTxs }

\* Deposits are revealed for script-hash outputs, never for an output of
\* the wallet itself, so the main UTXO is no deposit.
InitSpv ==
    /\ OthersIdle("spv")
    /\ spvDeposits \in { d \in [Outpoints -> {"none", "unswept", "swept"}] :
                           /\ d["d1"] # "none"
                           /\ d["d2"] # "none"
                           /\ d["m"] = "none"
                           /\ d["x"] = "none" }
    /\ spvMainUtxo \in {"m", None}
    /\ spvEvents \in {0, 2}
    /\ spvTxs \in SpvTransactionLists
    /\ spvEvents = 0 => spvTxs = << >>
    /\ spvPc = "sweep"
    /\ spvChecked = << >>
    /\ spvUnproven = << >>
    /\ spvIdx = 0
    /\ spvSubmitted = << >>
    /\ spvFailed = 0
    /\ spvCtxDone = "no"

\* uniqueWalletPublicKeyHashes (part_004:967-985): every event here is of
\* the one wallet.
UniqueWalletPublicKeyHashes(events) ==
    IF events = 0 THEN << >> ELSE << "wallet" >>

\* isInputCurrentWalletsMainUTXO (part_004:935-963): the hash of the
\* outpoint and its value is the wallet's MainUtxoHash; a wallet without a
\* main UTXO has the zero hash, which is the hash of no outpoint.
IsInputCurrentWalletsMainUTXO(outpoint) ==
    << "hash", outpoint >> = << "hash", spvMainUtxo >>

\* The loop of part_004:872-932 from input i on; the lookup made for input
\* failAt fails.
RECURSIVE CheckInputs(_, _, _, _)
CheckInputs(inputs, i, hasDepositInputs, failAt) ==
    IF i > Len(inputs)
    THEN [ unproven |-> hasDepositInputs, err |-> FALSE ]
    ELSE IF i = failAt
    THEN [ unproven |-> FALSE, err |-> TRUE ]
    ELSE IF spvDeposits[inputs[i]] = "none"
    THEN IF IsInputCurrentWalletsMainUTXO(inputs[i])
         THEN CheckInputs(inputs, i + 1, hasDepositInputs, failAt)
         ELSE [ unproven |-> FALSE, err |-> FALSE ]
    ELSE IF spvDeposits[inputs[i]] = "unswept"
    THEN CheckInputs(inputs, i + 1, TRUE, failAt)
    ELSE [ unproven |-> FALSE, err |-> FALSE ]

\* isUnprovenDepositSweepTransaction (part_004:858-933).
IsUnprovenDepositSweepTransaction_AnyOutputs(transaction, failAt) ==
    CheckInputs(transaction.inputs, 1, FALSE, failAt)

IsUnprovenDepositSweepTransaction_IgnoresSwept(transaction, failAt) ==
    [ unproven |->
        /\ transaction.outputs = 1
        /\ \A i \in 1..Len(transaction.inputs) :
              \/ spvDeposits[transaction.inputs[i]] # "none"
              \/ IsInputCurrentWalletsMainUTXO(transaction.inputs[i])
        /\ \E i \in 1..Len(transaction.inputs) :
              spvDeposits[transaction.inputs[i]] # "none",
      err |-> FALSE ]

IsUnprovenDepositSweepTransaction(transaction, failAt) ==
    IF transaction.outputs # 1
    THEN [ unproven |-> FALSE, err |-> FALSE ]
    ELSE CheckInputs(transaction.inputs, 1, FALSE, failAt)

\* A new sweep starts: nothing is looked at or submitted yet.
SweepStarts ==
    /\ spvPc' = "sweep"
    /\ spvChecked' = << >>
    /\ spvUnproven' = << >>
    /\ spvIdx' = 0
    /\ spvSubmitted' = << >>
    /\ spvFailed' = 0

\* getUnprovenDepositSweepTransactions (part_004:776-856). chainOk: the
\* block counter and the past events are read; txsOk: the wallet's
\* transactions are fetched; the lookup for input failAt of transaction
\* failTx fails.
GetUnprovenDepositSweepTransactions(chainOk, txsOk, failTx, failAt) ==
    /\ spvPc = "sweep"
    /\ LET wallets == UniqueWalletPublicKeyHashes(spvEvents)
           txs == IF wallets = << >> THEN << >> ELSE spvTxs
           results ==
               [ k \in 1..Len(txs) |->
                   IsUnprovenDepositSweepTransaction(
                       txs[k], IF k = failTx THEN failAt ELSE 0) ]
           errs == { k \in 1..Len(txs) : results[k].err }
           last == IF errs = {} THEN Len(txs)
                   ELSE CHOOSE k \in errs : \A j \in errs : k <= j
       IN  IF ~chainOk \/ (wallets # << >> /\ ~txsOk)
           THEN /\ spvPc' = "restart"
                /\ UNCHANGED << spvChecked, spvUnproven >>
           ELSE /\ spvChecked' = SubSeq(results, 1, last)
                /\ IF errs # {}
                   THEN /\ spvPc' = "restart"
                        /\ UNCHANGED spvUnproven
                   ELSE /\ spvPc' = "factor"
                        /\ spvUnproven' =
                             SortedSeq({ k \in 1..Len(txs) :
                                           results[k].unproven })
    /\ UNCHANGED << spvDeposits, spvMainUtxo, spvEvents, spvTxs, spvIdx,
                    spvSubmitted, spvFailed, spvCtxDone >>
    /\ OthersUnchanged("spv")

\* proveDepositSweepTransactions: chain.TxProofDifficultyFactor
\* (part_004:724-730), then the loop is entered.
TxProofDifficultyFactor(ok) ==
    /\ spvPc = "factor"
    /\ spvPc' = IF ~ok THEN "restart"
                ELSE IF spvUnproven = << >> THEN "idle" ELSE "prove"
    /\ spvIdx' = IF ok /\ spvUnproven # << >> THEN 1 ELSE spvIdx
    /\ UNCHANGED << spvDeposits, spvMainUtxo, spvEvents, spvTxs, spvChecked,
                    spvUnproven, spvSubmitted, spvFailed, spvCtxDone >>
    /\ OthersUnchanged("spv")

\* The output of the k-th transaction of the wallet.
SpvOutputs == << "o1", "o2", "o3", "o4" >>

\* What the Bridge records when it accepts the sweep proof of a
\* transaction: the deposits among its inputs are swept.
DepositsAfterProof(transaction) ==
    [ o \in Outpoints |->
        IF /\ \E i \in 1..Len(transaction.inputs) : transaction.inputs[i] = o
           /\ spvDeposits[o] # "none"
        THEN "swept" ELSE spvDeposits[o] ]

\* One round of the loop of part_004:732-771. outcome: "assemble", "parse"
\* or "submit" is the call that fails, or "ok": the Bridge accepts the
\* proof, and the output of the transaction is the wallet's main UTXO.
ProveTransaction(outcome) ==
    /\ spvPc = "prove"
    /\ LET transaction == spvUnproven[spvIdx]
       IN  /\ spvSubmitted' =
                 IF outcome \in {"submit", "ok"}
                 THEN Append(spvSubmitted, transaction)
                 ELSE spvSubmitted
           /\ IF outcome = "ok"
              THEN /\ spvIdx' = spvIdx + 1
                   /\ spvPc' = IF spvIdx = Len(spvUnproven)
                               THEN "idle" ELSE "prove"
                   /\ spvDeposits' = DepositsAfterProof(spvTxs[transaction])
                   /\ spvMainUtxo' = SpvOutputs[transaction]
                   /\ UNCHANGED spvFailed
              ELSE /\ spvFailed' = transaction
                   /\ spvPc' = "restart"
                   /\ UNCHANGED << spvIdx, spvDeposits, spvMainUtxo >>
    /\ UNCHANGED << spvEvents, spvTxs, spvChecked, spvUnproven, spvCtxDone >>
    /\ OthersUnchanged("spv")

\* maintainSpv's select (part_004:705-709). timerFirst: IdleBackOffTime has
\* passed and the next sweep starts; otherwise the context is done and
\* maintainSpv returns its error to the control loop. A context cancelled
\* before the select is entered wins over the timer just created.
MaintainSpvWait_IgnoresContext(timerFirst) ==
    /\ spvPc = "idle"
    /\ timerFirst
    /\ SweepStarts
    /\ UNCHANGED << spvDeposits, spvMainUtxo, spvEvents, spvTxs, spvCtxDone >>
    /\ OthersUnchanged("spv")

MaintainSpvWait(timerFirst) ==
    /\ spvPc = "idle"
    /\ IF timerFirst
       THEN /\ spvCtxDone # "yes"
            /\ SweepStarts
            /\ spvCtxDone' = IF spvCtxDone = "no" THEN "no" ELSE "yes"
       ELSE /\ spvCtxDone # "no"
            /\ spvPc' = "restart"
            /\ spvCtxDone' = "yes"
            /\ UNCHANGED << spvChecked, spvUnproven, spvIdx, spvSubmitted,
                            spvFailed >>
    /\ UNCHANGED << spvDeposits, spvMainUtxo, spvEvents, spvTxs >>
    /\ OthersUnchanged("spv")

\* startControlLoop's select (part_004:685-689). timerFirst:
\* RestartBackOffTime has passed and maintainSpv is called again; otherwise
\* the context is done and the loop returns.
StartControlLoopWait(timerFirst) ==
    /\ spvPc = "restart"
    /\ IF timerFirst
       THEN /\ spvCtxDone # "yes"
            /\ SweepStarts
            /\ spvCtxDone' = IF spvCtxDone = "no" THEN "no" ELSE "yes"
       ELSE /\ spvCtxDone # "no"
            /\ spvPc' = "returned"
            /\ spvCtxDone' = "yes"
            /\ UNCHANGED << spvChecked, spvUnproven, spvIdx, spvSubmitted,
                            spvFailed >>
    /\ UNCHANGED << spvDeposits, spvMainUtxo, spvEvents, spvTxs >>
    /\ OthersUnchanged("spv")

\* The context given to Initialize (part_004:648-661) is cancelled, while
\* the loop waits in one of its selects or while a sweep runs.
SpvCancel ==
    /\ spvPc \notin {"off", "returned"}
    /\ spvCtxDone = "no"
    /\ spvCtxDone' = IF spvPc \in {"idle", "restart"} THEN "waiting" ELSE "yes"
    /\ UNCHANGED << spvDeposits, spvMainUtxo, spvEvents, spvTxs, spvPc,
                    spvChecked, spvUnproven, spvIdx, spvSubmitted,
                    spvFailed >>
    /\ OthersUnchanged("spv")

\* The steps of the control loop's goroutine.
SpvLoopStep ==
    \/ \E chainOk, txsOk \in BOOLEAN :
         \E failTx \in 0..Len(spvTxs), failAt \in 0..MaxSpvInputs :
            GetUnprovenDepositSweepTransactions(chainOk, txsOk, failTx, failAt)
    \/ \E ok \in BOOLEAN : TxProofDifficultyFactor(ok)
    \/ \E outcome \in {"assemble", "parse", "submit", "ok"} :
         ProveTransaction(outcome)
    \/ \E timerFirst \in BOOLEAN : MaintainSpvWait(timerFirst)
    \/ \E timerFirst \in BOOLEAN : StartControlLoopWait(timerFirst)

NextSpv ==
    \/ SpvLoopStep
    \/ SpvCancel

SpecSpv == InitSpv /\ [][NextSpv]_vars

\* The control loop over a wallet with few transactions.
MaxLoopSpvTxs == 1

InitSpvLoop == InitSpv /\ Len(spvTxs) <= MaxLoopSpvTxs

\* The goroutine of the control loop is scheduled and its timers fire.
SpecSpvLive ==
    InitSpvLoop /\ [][NextSpv]_vars /\ WF_vars(SpvLoopStep)

(***************************************************************************)
(* The sortition pool monitor (sortition.go). A query of the chain answers *)
(* "true" or "false", or fails ("error").                                  *)
(***************************************************************************)
SortAnswers ==
    [ inPool : {"true", "false", "error"},
      upToDate : {"true", "false", "error"},
      locked : {"true", "false", "error"},
      eligible : {"true", "false", "error"},
      canRestore : {"true", "false", "error"} ]

InitSort ==
    /\ OthersIdle("sort")
    /\ sortPc = "start"
    /\ sortCheck = << >>

\* checkRewardsEligibility (sortition.go:125-154): the chain calls it makes.
CheckRewardsEligibility(a) ==
    << "IsEligibleForRewards" >>
    \o (IF a.eligible # "false" THEN << >>
        ELSE << "CanRestoreRewardEligibility" >>
             \o (IF a.canRestore = "true"
                 THEN << "RestoreRewardEligibility" >> ELSE << >>))

\* checkOperatorStatus (sortition.go:64-123): the chain calls it makes when
\* the chain answers a.
CheckOperatorStatus_IgnoresLock(a) ==
    << "IsOperatorInPool" >>
    \o (IF a.inPool = "error" THEN << >>
        ELSE << "IsOperatorUpToDate" >>
        \o (IF a.upToDate = "error" THEN << >>
            ELSE (IF a.inPool = "true"
                  THEN CheckRewardsEligibility(a) ELSE << >>)
            \o (IF a.upToDate = "true" THEN << >>
                ELSE << "IsPoolLocked" >>
                \o (IF a.locked = "error" THEN << >>
                    ELSE IF a.inPool = "true"
                    THEN << "UpdateOperatorStatus" >>
                    ELSE << "JoinSortitionPool" >>))))

CheckOperatorStatus(a) ==
    << "IsOperatorInPool" >>
    \o (IF a.inPool = "error" THEN << >>
        ELSE << "IsOperatorUpToDate" >>
        \o (IF a.upToDate = "error" THEN << >>
            ELSE (IF a.inPool = "true"
                  THEN CheckRewardsEligibility(a) ELSE << >>)
            \o (IF a.upToDate = "true" THEN << >>
                ELSE << "IsPoolLocked" >>
                \o (IF a.locked # "false" THEN << >>
                    ELSE IF a.inPool = "true"
                    THEN << "UpdateOperatorStatus" >>
                    ELSE << "JoinSortitionPool" >>))))

\* MonitorPool (sortition.go:24-43): the staking provider is resolved
\* (registered is its answer), then the first status check is made.
MonitorPool(registered, a) ==
    /\ sortPc = "start"
    /\ IF registered = "true"
       THEN /\ sortPc' = "running"
            /\ sortCheck' =
                 [ answers |-> a,
                   calls |-> << "OperatorToStakingProvider" >>
                             \o CheckOperatorStatus(a) ]
       ELSE /\ sortPc' = "failed"
            /\ sortCheck' =
                 [ answers |-> a,
                   calls |-> << "OperatorToStakingProvider" >> ]
    /\ OthersUnchanged("sort")

\* case <-ticker.C (sortition.go:51-56).
SortTick(a) ==
    /\ sortPc = "running"
    /\ sortCheck' = [ answers |-> a, calls |-> CheckOperatorStatus(a) ]
    /\ UNCHANGED sortPc
    /\ OthersUnchanged("sort")

\* case <-ctx.Done() (sortition.go:48-50).
SortCancel ==
    /\ sortPc = "running"
    /\ sortPc' = "stopped"
    /\ UNCHANGED sortCheck
    /\ OthersUnchanged("sort")

NextSort ==
    \/ \E registered \in {"true", "false", "error"}, a \in SortAnswers :
         MonitorPool(registered, a)
    \/ \E a \in SortAnswers : SortTick(a)
    \/ SortCancel

SpecSort == InitSort /\ [][NextSort]_vars

(***************************************************************************)
(* The end of a member's DKG task (part_001:181-263) by itself: the        *)
(* operating members after the publication, the final signing group and    *)
(* the registration of the signer. The operator of selection slot j has    *)
(* the address 100 + j.                                                    *)
(***************************************************************************)
InitRs ==
    /\ OthersIdle("rs")
    /\ rsMember \in Members
    /\ rsResult \in [ groupPublicKey : {"AA"}, misbehaved : MisbehavedSets ]
    /\ rsEvent \in [ GroupPublicKeyBytes : Keys, Misbehaved : MisbehavedSets ]
    /\ rsSelected \in { [ j \in 1..n |-> 100 + j ] :
                          n \in {GroupSize - 1, GroupSize} }
    /\ rsPublished \in BOOLEAN
    /\ rsOperating = << >>
    /\ rsPc = "publish"
    /\ rsSigner = << >>
    /\ rsErr = None

\* The publication went through: the task keeps
\* result.Group.OperatingMemberIDs() (part_001:181), a list with the
\* operating members in the order list gives them.
RsPublished(list) ==
    /\ rsPc = "publish"
    /\ rsPublished
    /\ Len(list) = Cardinality(OperatingMemberIDs(rsResult))
    /\ { list[k] : k \in 1..Len(list) } = OperatingMemberIDs(rsResult)
    /\ rsOperating' = list
    /\ rsPc' = "resolve"
    /\ UNCHANGED << rsMember, rsResult, rsEvent, rsSelected, rsPublished,
                    rsSigner, rsErr >>
    /\ OthersUnchanged("rs")

\* The publication failed: decideSigningGroupMemberFate (part_001:275-328).
\* arrived: the event comes before the timeout block.
RsDecideFate(arrived) ==
    /\ rsPc = "publish"
    /\ ~rsPublished
    /\ LET err == IF arrived THEN FateOf(rsMember, rsEvent, rsResult)
                  ELSE "timeout"
       IN  IF err = None
           THEN /\ rsOperating' = SortedSeq(FateOperating(rsEvent, rsResult))
                /\ rsPc' = "resolve"
                /\ UNCHANGED rsErr
           ELSE /\ rsErr' = err
                /\ rsPc' = "done"
                /\ UNCHANGED rsOperating
    /\ UNCHANGED << rsMember, rsResult, rsEvent, rsSelected, rsPublished,
                    rsSigner >>
    /\ OthersUnchanged("rs")

\* resolveFinalSigningGroupOperators and walletRegistry.registerSigner
\* (part_001:231-263); registered tells whether registerSigner succeeds.
RsResolve(registered) ==
    /\ rsPc = "resolve"
    /\ LET ops == ResolveFinalSigningGroupOperators(rsSelected, rsOperating)
       IN  IF ops = << >>
           THEN /\ rsErr' = "resolve"
                /\ UNCHANGED rsSigner
           ELSE IF registered
                THEN /\ rsSigner' = ops
                     /\ UNCHANGED rsErr
                ELSE /\ rsErr' = "register"
                     /\ UNCHANGED rsSigner
    /\ rsPc' = "done"
    /\ UNCHANGED << rsMember, rsResult, rsEvent, rsSelected, rsPublished,
                    rsOperating >>
    /\ OthersUnchanged("rs")

NextRs ==
    \/ \E list \in UNION { [1..n -> Members] : n \in 0..GroupSize } :
         RsPublished(list)
    \/ \E arrived \in BOOLEAN : RsDecideFate(arrived)
    \/ \E registered \in BOOLEAN : RsResolve(registered)

SpecRs == InitRs /\ [][NextRs]_vars

(***************************************************************************)
(* The start of node.joinDKGIfEligible (part_001:65-169): from the group   *)
(* selection to the start of the member tasks.                             *)
(***************************************************************************)
InitJoin ==
    /\ OthersIdle("join")
    /\ joinSelected \in UNION { [1..n -> {"local", "peer"}] :
                                  n \in (GroupSize - 1)..(GroupSize + 1) }
    /\ joinPc = "select"
    /\ joinIndexes = {}
    /\ joinFilter = "none"
    /\ joinStarted = {}

\* part_001:71-116. outcome: "select", "key" or "address" is the call that
\* fails, or "ok". Without an own slot the function is done.
JoinSelectGroup(outcome) ==
    /\ joinPc = "select"
    /\ LET own == { j \in 1..Len(joinSelected) : joinSelected[j] = "local" }
       IN  IF outcome # "ok" \/ Len(joinSelected) > GroupSize \/ own = {}
           THEN /\ joinPc' = "returned"
                /\ UNCHANGED joinIndexes
           ELSE /\ joinPc' = "channel"
                /\ joinIndexes' = own
    /\ UNCHANGED << joinSelected, joinFilter, joinStarted >>
    /\ OthersUnchanged("join")

\* part_001:124-149: BroadcastChannelFor, SetFilter, BlockCounter. A
\* SetFilter error is logged and the function goes on.
JoinChannel(channelOk, filterOk, counterOk) ==
    /\ joinPc = "channel"
    /\ IF ~channelOk
       THEN joinPc' = "returned" /\ UNCHANGED joinFilter
       ELSE /\ joinFilter' = IF filterOk THEN "set" ELSE "failed"
            /\ joinPc' = IF counterOk THEN "tasks" ELSE "returned"
    /\ UNCHANGED << joinSelected, joinIndexes, joinStarted >>
    /\ OthersUnchanged("join")

\* One round of the loop of part_001:151-156: the task of the next member
\* index is started.
JoinStartTask ==
    /\ joinPc = "tasks"
    /\ LET left == joinIndexes \ joinStarted
           memberIndex == CHOOSE i \in left : \A j \in left : i <= j
       IN  /\ joinStarted' = joinStarted \cup {memberIndex}
           /\ joinPc' = IF left = {memberIndex} THEN "returned" ELSE "tasks"
    /\ UNCHANGED << joinSelected, joinIndexes, joinFilter >>
    /\ OthersUnchanged("join")

NextJoin ==
    \/ \E outcome \in {"select", "key", "address", "ok"} :
         JoinSelectGroup(outcome)
    \/ \E channelOk, filterOk, counterOk \in BOOLEAN :
         JoinChannel(channelOk, filterOk, counterOk)
    \/ JoinStartTask

SpecJoin == InitJoin /\ [][NextJoin]_vars

(***************************************************************************)
(* ValidateRedemptionProposal (redemption.go:263-326).                     *)
(***************************************************************************)
MaxProposalScripts == 2

ValScripts == { RedeemerOutputScripts[i] : i \in 1..3 }

\* The pending request the chain holds under a redeemer output script.
PendingRequest(script) == [ RedeemerOutputScript |-> script ]

InitVal ==
    /\ OthersIdle("val")
    /\ valProposal \in UNION { [1..n -> ValScripts] :
                                 n \in 0..MaxProposalScripts }
    /\ valPending \in SUBSET ValScripts
    /\ valCalls = << >>
    /\ valResult = [ requests |-> << >>, err |-> "notrun" ]

\* The loop of redemption.go:297-323 from index i on. failAt is the index
\* whose GetPendingRedemptionRequest call returns an error (0: none).
RECURSIVE GetPendingRedemptionRequests(_, _, _, _)
GetPendingRedemptionRequests(scripts, pending, failAt, i) ==
    IF i > Len(scripts)
    THEN [ calls |-> << >>, requests |-> << >>, err |-> None ]
    ELSE IF i = failAt
    THEN [ calls |-> << scripts[i] >>, requests |-> << >>, err |-> "lookup" ]
    ELSE IF scripts[i] \notin pending
    THEN [ calls |-> << scripts[i] >>, requests |-> << >>,
           err |-> "notPending" ]
    ELSE LET rest == GetPendingRedemptionRequests(scripts, pending, failAt,
                                                  i + 1)
         IN  [ calls |-> << scripts[i] >> \o rest.calls,
               requests |-> IF rest.err = None
                            THEN << PendingRequest(scripts[i]) >>
                                     \o rest.requests
                            ELSE << >>,
               err |-> rest.err ]

\* One call of ValidateRedemptionProposal. validOk is the outcome of
\* chain.ValidateRedemptionProposal.
ValidateRedemptionProposal_LooksUpFirst(validOk, failAt) ==
    /\ valResult.err = "notrun"
    /\ LET loop == GetPendingRedemptionRequests(valProposal, valPending,
                                                failAt, 1)
       IN  /\ valCalls' = << "ValidateRedemptionProposal" >> \o loop.calls
           /\ valResult' = IF validOk
                           THEN [ requests |-> loop.requests,
                                  err |-> loop.err ]
                           ELSE [ requests |-> << >>, err |-> "invalid" ]
    /\ UNCHANGED << valProposal, valPending >>
    /\ OthersUnchanged("val")

ValidateRedemptionProposal(validOk, failAt) ==
    /\ valResult.err = "notrun"
    /\ IF ~validOk
       THEN /\ valCalls' = << "ValidateRedemptionProposal" >>
            /\ valResult' = [ requests |-> << >>, err |-> "invalid" ]
       ELSE LET loop == GetPendingRedemptionRequests(valProposal, valPending,
                                                     failAt, 1)
            IN  /\ valCalls' = << "ValidateRedemptionProposal" >>
                                  \o loop.calls
                /\ valResult' = [ requests |-> loop.requests,
                                  err |-> loop.err ]
    /\ UNCHANGED << valProposal, valPending >>
    /\ OthersUnchanged("val")

NextVal ==
    \E validOk \in BOOLEAN, failAt \in 0..Len(valProposal) :
        ValidateRedemptionProposal(validOk, failAt)

SpecVal == InitVal /\ [][NextVal]_vars

(***************************************************************************)
(* The block range of the event query of                                  *)
(* getUnprovenDepositSweepTransactions (part_004:780-801). Block numbers   *)
(* are unsigned integers of StartBlockBits bits.                           *)
(***************************************************************************)
StartBlockBits == 16

StartBlockModulus == 2 ^ StartBlockBits

\* The number of blocks the query looks back (part_004:792).
PastEventsBlocks == 40320

InitWin ==
    /\ OthersIdle("win")
    /\ winCurrentBlock \in 0..(StartBlockModulus - 1)
    /\ winPc = "start"
    /\ winStartBlock = 0

\* startBlock := currentBlock - 40320, in unsigned arithmetic.
StartBlock(currentBlock) ==
    (currentBlock - PastEventsBlocks) % StartBlockModulus

\* part_004:780-801. counterOk: chain.BlockCounter and CurrentBlock return
\* without error.
PastDepositSweepProposalSubmittedEvents(counterOk) ==
    /\ winPc = "start"
    /\ IF counterOk
       THEN /\ winPc' = "queried"
            /\ winStartBlock' = StartBlock(winCurrentBlock)
       ELSE /\ winPc' = "failed"
            /\ UNCHANGED winStartBlock
    /\ UNCHANGED winCurrentBlock
    /\ OthersUnchanged("win")

NextWin == \E counterOk \in BOOLEAN :
    PastDepositSweepProposalSubmittedEvents(counterOk)

SpecWin == InitWin /\ [][NextWin]_vars

(***************************************************************************)
(* MovingFundsTask.Run (part_004:70-200) with the submission of the        *)
(* moving funds commitment (part_004:458-526). Lists of target wallets are *)
(* "t1" and "t2"; the commitment hash of a list is CommitmentHash of it.   *)
(***************************************************************************)
ZeroHash == "0x00"

\* chain.ComputeMovingFundsCommitmentHash.
ComputeMovingFundsCommitmentHash(targetWallets) ==
    IF targetWallets = "t1" THEN "h1" ELSE "h2"

InitMf ==
    /\ OthersIdle("mf")
    /\ mfChain \in [ State : {"Live", "MovingFunds"},
                     PendingRedemptionsValue : {0, 1},
                     PendingMovedFundsSweepRequestsCount : {0, 1},
                     MainUtxo : { << >>, << -1 >>, << 0 >>, << 5 >> },
                     LiveWalletsCount : {0, 1},
                     CommitmentHash : {ZeroHash, "h1"},
                     EventWallets : {"none", "t1", "t2"} ]
    /\ mfPc = "run"
    /\ mfRun = [ hash |-> ZeroHash, calls |-> << >>, targetWallets |-> "none",
                 currentBlock |-> 0, submit |-> "none", proposal |-> FALSE,
                 err |-> None ]
    /\ mfChecks = << >>

\* FindTargetWallets (part_004:207-232) with findNewTargetWallets and
\* retrieveCommittedTargetWallets (part_004:337-403). eventWallets is the
\* target wallet list of the single commitment event found, "none" when the
\* number of events is not one; findOk: the chain queries made return
\* without error and enough Live wallets are gathered.
FindTargetWallets_AlwaysNew(targetWalletsCommitmentHash, eventWallets, findOk) ==
    [ targetWallets |-> IF findOk THEN "t1" ELSE "none",
      commitmentExists |-> FALSE,
      err |-> IF findOk THEN None ELSE "findNewTargetWallets" ]

FindTargetWallets(targetWalletsCommitmentHash, eventWallets, findOk) ==
    IF targetWalletsCommitmentHash = ZeroHash
    THEN [ targetWallets |-> IF findOk THEN "t1" ELSE "none",
           commitmentExists |-> FALSE,
           err |-> IF findOk THEN None ELSE "findNewTargetWallets" ]
    ELSE IF ~findOk
    THEN [ targetWallets |-> "none", commitmentExists |-> TRUE,
           err |-> "PastMovingFundsCommitmentSubmittedEvents" ]
    ELSE IF eventWallets = "none"
    THEN [ targetWallets |-> "none", commitmentExists |-> TRUE,
           err |-> "unexpected number of events" ]
    ELSE IF ComputeMovingFundsCommitmentHash(eventWallets)
               # targetWalletsCommitmentHash
    THEN [ targetWallets |-> "none", commitmentExists |-> TRUE,
           err |-> "ErrWrongCommitmentHash" ]
    ELSE [ targetWallets |-> eventWallets, commitmentExists |-> TRUE,
           err |-> None ]

\* Run returns no proposal, with the error or without one.
RunReturns(err) ==
    /\ mfPc' = "done"
    /\ mfRun' = [ mfRun EXCEPT !.err = err ]

\* Run up to FindTargetWallets (part_004:75-155). walletOk, utxoOk, liveOk:
\* GetWallet, DetermineWalletMainUtxo and GetLiveWalletsCount return without
\* error.
Run(walletOk, utxoOk, liveOk, findOk) ==
    /\ mfPc = "run"
    /\ LET walletBalance == IF mfChain.MainUtxo = << >> THEN 0
                            ELSE mfChain.MainUtxo[1]
           found == FindTargetWallets(mfChain.CommitmentHash,
                                      mfChain.EventWallets, findOk)
       IN  IF ~walletOk THEN RunReturns("GetWallet")
           ELSE IF mfChain.State # "MovingFunds" THEN RunReturns(None)
           ELSE IF mfChain.PendingRedemptionsValue > 0 THEN RunReturns(None)
           ELSE IF mfChain.PendingMovedFundsSweepRequestsCount > 0
           THEN RunReturns(None)
           ELSE IF ~utxoOk THEN RunReturns("DetermineWalletMainUtxo")
           ELSE IF walletBalance <= 0 THEN RunReturns(None)
           ELSE IF ~liveOk THEN RunReturns("GetLiveWalletsCount")
           ELSE IF mfChain.LiveWalletsCount = 0 THEN RunReturns(None)
           ELSE /\ mfRun' = [ mfRun EXCEPT
                                !.hash = mfChain.CommitmentHash,
                                !.calls = << "FindTargetWallets" >>,
                                !.targetWallets = found.targetWallets,
                                !.err = found.err ]
                /\ mfPc' = IF found.err # None THEN "done"
                           ELSE IF found.commitmentExists THEN "propose"
                           ELSE "members"
    /\ UNCHANGED << mfChain, mfChecks >>
    /\ OthersUnchanged("mf")

\* GetWalletMembersInfo (part_004:158-167, 408-454).
GetWalletMembersInfo(ok) ==
    /\ mfPc = "members"
    /\ mfPc' = IF ok THEN "submit" ELSE "done"
    /\ mfRun' = [ mfRun EXCEPT
                    !.calls = Append(@, "GetWalletMembersInfo"),
                    !.err = IF ok THEN None ELSE "GetWalletMembersInfo" ]
    /\ UNCHANGED << mfChain, mfChecks >>
    /\ OthersUnchanged("mf")

\* SubmitMovingFundsCommitment up to its loop (part_004:466-488). chainOk:
\* chain.SubmitMovingFundsCommitment returns without error; counterOk: the
\* current block is read.
SubmitMovingFundsCommitment(chainOk, counterOk, currentBlock) ==
    /\ mfPc = "submit"
    /\ LET err == IF ~chainOk THEN "chain"
                  ELSE IF ~counterOk THEN "counter" ELSE None
       IN  /\ mfPc' = IF err = None THEN "wait" ELSE "done"
           /\ mfRun' = [ mfRun EXCEPT
                           !.calls = Append(@, "SubmitMovingFundsCommitment"),
                           !.currentBlock = currentBlock,
                           !.submit = IF err = None THEN "none" ELSE err,
                           !.err = IF err = None THEN None
                                   ELSE "SubmitMovingFundsCommitment" ]
    /\ UNCHANGED << mfChain, mfChecks >>
    /\ OthersUnchanged("mf")

\* The last block height of the confirmation loop (part_004:492).
LastConfirmationBlock_Seven(currentBlock) == currentBlock + 7

LastConfirmationBlock(currentBlock) == currentBlock + 6

\* One round of the confirmation loop (part_004:492-525), with the return
\* that follows the last one. included: the commitment is in the chain by
\* this block; waitOk, walletOk: WaitForBlockHeight and GetWallet return
\* without error.
ConfirmationRound(included, waitOk, walletOk) ==
    /\ mfPc = "wait"
    /\ LET blockHeight == mfRun.currentBlock + Len(mfChecks) + 1
           hash == IF included
                   THEN ComputeMovingFundsCommitmentHash(mfRun.targetWallets)
                   ELSE mfChain.CommitmentHash
           Ends(submit) ==
               /\ mfPc' = IF submit = "nil" THEN "propose" ELSE "done"
               /\ mfRun' = [ mfRun EXCEPT
                               !.submit = submit,
                               !.err = IF submit = "nil" THEN None
                                       ELSE "SubmitMovingFundsCommitment" ]
       IN  /\ mfChain' = IF included
                         THEN [ mfChain EXCEPT
                                  !.CommitmentHash = hash,
                                  !.EventWallets = mfRun.targetWallets ]
                         ELSE mfChain
           /\ IF ~waitOk
              THEN Ends("wait") /\ UNCHANGED mfChecks
              ELSE IF ~walletOk
              THEN Ends("wallet") /\ UNCHANGED mfChecks
              ELSE /\ mfChecks' = Append(mfChecks, [ blockHeight |-> blockHeight,
                                                     hash |-> hash ])
                   /\ IF hash # ZeroHash
                      THEN Ends("nil")
                      ELSE IF blockHeight + 1
                                 <= LastConfirmationBlock(mfRun.currentBlock)
                      THEN UNCHANGED << mfPc, mfRun >>
                      ELSE Ends("ErrTransactionNotIncluded")
    /\ OthersUnchanged("mf")

\* ProposeMovingFunds and the return of Run (part_004:185-199).
ProposeMovingFunds(ok) ==
    /\ mfPc = "propose"
    /\ mfPc' = "done"
    /\ mfRun' = [ mfRun EXCEPT
                    !.calls = Append(@, "ProposeMovingFunds"),
                    !.proposal = ok,
                    !.err = IF ok THEN None ELSE "ProposeMovingFunds" ]
    /\ UNCHANGED << mfChain, mfChecks >>
    /\ OthersUnchanged("mf")

NextMf ==
    \/ \E walletOk, utxoOk, liveOk, findOk \in BOOLEAN :
          Run(walletOk, utxoOk, liveOk, findOk)
    \/ \E ok \in BOOLEAN : GetWalletMembersInfo(ok)
    \/ \E chainOk, counterOk \in BOOLEAN, currentBlock \in {0, 7} :
          SubmitMovingFundsCommitment(chainOk, counterOk, currentBlock)
    \/ \E included, waitOk, walletOk \in BOOLEAN :
          ConfirmationRound(included, waitOk, walletOk)
    \/ \E ok \in BOOLEAN : ProposeMovingFunds(ok)

SpecMf == InitMf /\ [][NextMf]_vars

RECURSIVE SumSeq(_)
SumSeq(q) == IF q = << >> THEN 0 ELSE Head(q) + SumSeq(Tail(q))

(***************************************************************************)
(* Claims.                                                                 *)
(***************************************************************************)

\* SubmitResult is at, or has passed, its chain.SubmitDKGResult call.
CallsSubmit(i) ==
    pc[i] \in {"submit", "csubmit"} \/ "SubmitDKGResult" \in calls[i]

\* The first block at which member i may submit, as the specification
\* states it.
SpecEligibleBlock(i) ==
    executionEndBlock + (i - 1) * ResultPublicationBlockStep

\* The block at which reconciliation gives up, as the specification
\* states it.
SpecTimeoutBlock ==
    executionEndBlock + PrePublicationBlocks
        + GroupSize * ResultPublicationBlockStep

\* C1: DKG eligibility queue. Member i's submitter (either one) is never
\* at its SubmitDKGResult call before block
\* publicationStartBlock + (i-1) * ResultPublicationBlockStep.
C1_EligibilityQueue ==
    \A i \in Members : CallsSubmit(i) => block >= SpecEligibleBlock(i)

\* C1 witness: the last member submits exactly at its eligibility block.
C1_Witness ==
    /\ mode = "node"
    /\ "SubmitDKGResult" \in calls[GroupSize]
    /\ block = SpecEligibleBlock(GroupSize)

\* C2: abandon on a peer's submission. Once the waiting submitter received
\* the DKGResultSubmitted event (or its context was cancelled while it
\* waited), it never calls SubmitDKGResult and returns nil.
C2_AbandonOnPeerSubmission ==
    \A i \in Members :
        abandoned[i] =>
            /\ ~CallsSubmit(i)
            /\ subRet[i] # "error"
            /\ (pc[i] \in {"resolve", "done"} => subRet[i] = "nil")

\* C2 witness: a waiting event-driven submitter left on a peer's event.
C2_Witness ==
    \E i \in Members :
        /\ mode = "node"
        /\ abandoned[i]
        /\ subRet[i] = "nil"
        /\ stateRead[i] = "AwaitingResult"

\* C3: a member whose group public key differs from the one accepted
\* on-chain never registers a signer.
C3_DifferentResultNeverRegisters ==
    \A i \in Members :
        (/\ accepted # NoEvent
         /\ accepted.GroupPublicKeyBytes # result.groupPublicKey)
            => signer[i] = << >>

\* The task received the event in waitForDkgResultEvent.
ObservedEvent(i) == nodeCb[i] = "done"

C5_ForkAbandons ==
    \A i \in Members :
        (/\ ObservedEvent(i)
         /\ accepted.GroupPublicKeyBytes # result.groupPublicKey) =>
            /\ pc[i] = "done"
            /\ fate[i] = "fork"
            /\ signer[i] = << >>

\* C5 witness: a fork observed with an empty misbehaved list.
C5_Witness ==
    \E i \in Members :
        /\ ObservedEvent(i)
        /\ subRet[i] = "error"
        /\ accepted.GroupPublicKeyBytes = "BB"
        /\ accepted.Misbehaved = {}
        /\ fate[i] = "fork"

\* C6: reconciliation timeout. The timeout error is returned only once the
\* timeout block is reached and no event was received; it ends the task
\* without a signer. From that block on the timeout case of the select is
\* ready, and it is the only ready case when no callback is pending, so
\* the wait does not outlast the block; before it, with no callback
\* pending, the task waits.
C6_ReconciliationTimeout ==
    \A i \in Members :
        /\ fate[i] = "timeout" =>
              /\ block >= SpecTimeoutBlock
              /\ ~ObservedEvent(i)
              /\ pc[i] = "done"
              /\ signer[i] = << >>
        /\ (pc[i] = "reconcile" /\ block >= SpecTimeoutBlock) =>
              ENABLED ReconcileTimeout(i)
        /\ (pc[i] = "reconcile" /\ nodeCb[i] # "blocked") =>
              /\ ~ENABLED ReconcileEvent(i)
              /\ (block < SpecTimeoutBlock => ~ENABLED ReconcileTimeout(i))

\* C6 witness: a failed submission, no event, the timeout taken at the
\* timeout block.
C6_Witness ==
    \E i \in Members :
        /\ subRet[i] = "error"
        /\ fate[i] = "timeout"
        /\ accepted = NoEvent
        /\ block = SpecTimeoutBlock

\* C7: pre-submission check. SubmitDKGResult is called only after
\* GetDKGState returned AwaitingResult; any other state read returns nil
\* without assembling, queueing or submitting; a failed read returns an
\* error without submitting.
C7_PreSubmissionCheck ==
    \A i \in Members :
        /\ CallsSubmit(i) => stateRead[i] = "AwaitingResult"
        /\ stateRead[i] \in {"Idle", "AwaitingSeed", "Challenge"} =>
              /\ subRet[i] = "nil"
              /\ calls[i] \cap {"AssembleDKGResult", "BlockCounter",
                                "SubmitDKGResult"} = {}
        /\ stateRead[i] = "failed" =>
              /\ subRet[i] = "error"
              /\ ~CallsSubmit(i)

\* C7 witness: the submitter read Challenge and returned nil.
C7_Witness ==
    \E i \in Members :
        /\ stateRead[i] = "Challenge"
        /\ subRet[i] = "nil"
        /\ "SubmitDKGResult" \notin calls[i]

\* SubmitResult has been called and is past its signature gate.
PastGate(i) == sigs[i] > 0 /\ pc[i] \notin {"gate", "cgate"}

\* C8: minimum-signature gate. With fewer than GroupQuorum signatures
\* SubmitResult returns an error and makes no chain call; with at least
\* GroupQuorum signatures it is not rejected at the gate.
C8_MinimumSignatureGate ==
    \A i \in Members :
        /\ (PastGate(i) /\ sigs[i] < GroupQuorum) =>
              (subRet[i] = "error" /\ calls[i] = {})
        /\ (PastGate(i) /\ sigs[i] >= GroupQuorum) =>
              ~(subRet[i] = "error" /\ calls[i] = {})

\* C9: subscription callbacks never block. Once the task has returned
\* nobody receives from its channels any more, so no callback invocation
\* may still be waiting on its channel send.
C9_CallbacksNeverBlock ==
    \A i \in Members :
        pc[i] = "done" => (nodeCb[i] # "blocked" /\ subCb[i] # "blocked")

\* C10: fee distribution conserves value. For totalFee >= 0 and N >= 1
\* requests there are N shares, they sum to totalFee, every share but the
\* last is floor(totalFee / N) and the last one is
\* floor(totalFee / N) + totalFee mod N.
C10_FeeDistribution ==
    (feePc = "done" /\ feeTotal >= 0) =>
        /\ Len(feeShares) = feeCount
        /\ SumSeq(feeShares) = feeTotal
        /\ \A i \in 1..(feeCount - 1) :
              feeShares[i] = feeTotal \div feeCount
        /\ feeShares[feeCount] =
              (feeTotal \div feeCount) + (feeTotal % feeCount)

\* C10 witness: 1001 over 4 requests gives [250, 250, 250, 251].
C10_Witness ==
    /\ feePc = "done"
    /\ feeTotal = 1001
    /\ feeCount = 4
    /\ feeShares = << 250, 250, 250, 251 >>


(***************************************************************************)
(* Claims about assembleRedemptionTransaction.                             *)
(***************************************************************************)

\* The outputs of the assembled transaction that are not the change.
TxRedemptionOutputs ==
    SelectSeq(txOutputs, LAMBDA o : o.PublicKeyScript # WalletChangeScript)

\* The outputs of the assembled transaction that pay the wallet.
TxChangeOutputs ==
    SelectSeq(txOutputs, LAMBDA o : o.PublicKeyScript = WalletChangeScript)

\* RequestedAmount - TreasuryFee - FeeShare[i] as an integer.
IntRedemptionValue(i) ==
    txRequests[i].RequestedAmount - txRequests[i].TreasuryFee
        - txFeeShares[i]

\* Main UTXO value minus the redemption output values minus the fee shares,
\* as an integer.
IntChangeValue ==
    txMainUtxo[1]
        - SumSeq([ i \in 1..Len(TxRedemptionOutputs) |->
                     TxRedemptionOutputs[i].Value ])
        - SumSeq(txFeeShares)

\* C11 as stated: the i-th redemption output pays request i's script the
\* integer RequestedAmount - TreasuryFee - FeeShare[i], for all values of
\* the three quantities within their widths.
C11_RedemptionOutputCorrectness ==
    txPc = "built" =>
        /\ Len(TxRedemptionOutputs) = Len(txRequests)
        /\ \A i \in 1..Len(txRequests) :
            /\ TxRedemptionOutputs[i].PublicKeyScript =
                   txRequests[i].RedeemerOutputScript
            /\ TxRedemptionOutputs[i].Value = IntRedemptionValue(i)

\* C11 amended: the i-th redemption output pays request i's script a value
\* congruent to RequestedAmount - TreasuryFee - FeeShare[i] modulo the
\* integer width, and equal to it whenever that integer fits the signed
\* output value (also when TreasuryFee > RequestedAmount).
C11_RedemptionOutputWithinWidth ==
    txPc = "built" =>
        /\ Len(TxRedemptionOutputs) = Len(txRequests)
        /\ \A i \in 1..Len(txRequests) :
            /\ TxRedemptionOutputs[i].PublicKeyScript =
                   txRequests[i].RedeemerOutputScript
            /\ (TxRedemptionOutputs[i].Value - IntRedemptionValue(i))
                   % Modulus = 0
            /\ IntRedemptionValue(i) \in MinInt64..MaxInt64 =>
                   TxRedemptionOutputs[i].Value = IntRedemptionValue(i)

C11_Witness ==
    /\ txPc = "built"
    /\ Len(txRequests) = 2
    /\ txRequests[2].TreasuryFee > txRequests[2].RequestedAmount
    /\ TxRedemptionOutputs[2].Value = IntRedemptionValue(2)
    /\ TxRedemptionOutputs[1].Value = IntRedemptionValue(1)
    /\ TxRedemptionOutputs[1].Value > 0

\* C12: a present change output is outputs[0] under RedemptionChangeFirst
\* and under no shape argument, and the last output under
\* RedemptionChangeLast, the redemption outputs taking the other positions
\* in request order; without a change output the outputs are exactly the
\* redemption outputs.
C12_ChangePlacement ==
    txPc = "built" =>
        LET n == Len(txRequests)
            m == Len(txOutputs)
            PaysRequest(o, i) ==
                /\ o.PublicKeyScript = txRequests[i].RedeemerOutputScript
                /\ o.Value = TxRedemptionOutputs[i].Value
        IN  /\ m \in {n, n + 1}
            /\ m = n => \A i \in 1..n : PaysRequest(txOutputs[i], i)
            /\ m = n + 1 =>
                 IF txShape = << RedemptionChangeLast >>
                 THEN /\ txOutputs[m].PublicKeyScript = WalletChangeScript
                      /\ \A i \in 1..n : PaysRequest(txOutputs[i], i)
                 ELSE /\ txShape \in { << >>, << RedemptionChangeFirst >> }
                      /\ txOutputs[1].PublicKeyScript = WalletChangeScript
                      /\ \A i \in 1..n : PaysRequest(txOutputs[i + 1], i)

C12_Witness ==
    /\ txPc = "built"
    /\ txShape = << >>
    /\ Len(txRequests) = 2
    /\ Len(txOutputs) = 3
    /\ txOutputs[1].PublicKeyScript = WalletChangeScript

\* C13 as stated: the change output is omitted iff the integer change value
\* is <= 0, and a present change output carries exactly that value and the
\* wallet's P2WPKH script.
C13_ChangeOmittedIffNotPositive ==
    txPc = "built" =>
        /\ Len(TxChangeOutputs) = 0 <=> IntChangeValue <= 0
        /\ Len(TxChangeOutputs) <= 1
        /\ \A i \in 1..Len(TxChangeOutputs) :
               TxChangeOutputs[i].Value = IntChangeValue

\* C13 amended: whenever the integer change value fits the signed output
\* value, the change output is omitted iff it is <= 0, and a present change
\* output carries exactly that value and the wallet's P2WPKH script.
C13_ChangeWithinWidth ==
    (txPc = "built" /\ IntChangeValue \in MinInt64..MaxInt64) =>
        /\ Len(TxChangeOutputs) = 0 <=> IntChangeValue <= 0
        /\ Len(TxChangeOutputs) <= 1
        /\ \A i \in 1..Len(TxChangeOutputs) :
               TxChangeOutputs[i].Value = IntChangeValue

C13_Witness ==
    /\ txPc = "built"
    /\ Len(txRequests) = 2
    /\ Len(TxChangeOutputs) = 1
    /\ TxChangeOutputs[1].Value = IntChangeValue
    /\ IntChangeValue > 0
    /\ SumSeq(txFeeShares) > 0


(***************************************************************************)
(* Claims about redemptionAction.execute.                                  *)
(***************************************************************************)

RedemptionPhaseOrder ==
    << "validateProposal", "determineMainUtxo", "ensureWalletSynced",
       "assembleTx", "signTx", "broadcastTx" >>

RedeemStarted(step) == \E k \in 1..Len(redeemPhases) : redeemPhases[k] = step

\* C14: execute() runs validateProposal, determineMainUtxo,
\* ensureWalletSynced, assembleTx, signTx, broadcastTx strictly in that
\* order; a failed phase returns an error and no later phase runs, so
\* signing starts only after validation, main-UTXO determination and
\* chain-sync succeeded, and broadcast only after signing succeeded.
C14_PhaseOrdering ==
    /\ Len(redeemPhases) <= Len(RedemptionPhaseOrder)
    /\ redeemPhases = SubSeq(RedemptionPhaseOrder, 1, Len(redeemPhases))
    /\ \A k \in 1..(Len(redeemPhases) - 1) : redeemPhases[k] \in redeemPassed
    /\ RedeemStarted("signTx") =>
           {"validateProposal", "determineMainUtxo", "ensureWalletSynced"}
               \subseteq redeemPassed
    /\ RedeemStarted("broadcastTx") => "signTx" \in redeemPassed
    /\ redeemPc = "failed" <=> redeemErr # None
    /\ redeemPc = "failed" => ~ENABLED NextRedeem
    /\ redeemPc = "done" => redeemPassed =
           { RedemptionPhaseOrder[k] : k \in 1..Len(RedemptionPhaseOrder) }

C14_Witness ==
    /\ redeemPc = "done"
    /\ redeemPhases = RedemptionPhaseOrder
    /\ redeemErr = None

\* C15: signing is always invoked with the timeout block
\* proposalExpiryBlock - signingTimeoutSafetyMarginBlocks (margin 300); with
\* proposalExpiryBlock below the margin the action fails with 'invalid
\* proposal expiry block' before signing, so the unsigned subtraction never
\* wraps.
C15_SigningDeadline ==
    /\ RedeemStarted("signTx") =>
           /\ proposalExpiryBlock >= 300
           /\ signTimeoutBlock = proposalExpiryBlock - 300
    /\ ( /\ proposalExpiryBlock < 300
         /\ "assembleTx" \in redeemPassed
         /\ redeemPc # "signTx" ) =>
           /\ redeemPc = "failed"
           /\ redeemErr = "invalid proposal expiry block"

C15_Witness ==
    /\ RedeemStarted("signTx")
    /\ proposalExpiryBlock = 600
    /\ signTimeoutBlock = 300
    /\ redeemPc = "broadcastTx"


(***************************************************************************)
(* Claims about the Relay library.                                         *)
(***************************************************************************)

\* C16: at most one active relay request. Whenever currentRequest.id != 0,
\* a call of requestEntry fails with 'Another relay request in progress' and
\* leaves requestCount, currentRequest and previousEntry unchanged.
C16_AtMostOneActiveRequest ==
    [][ \A groupId \in 1..2, paid \in BOOLEAN :
          (currentRequest.id # 0 /\ RequestEntry(groupId, paid)) =>
              /\ relayCall'.error = "Another relay request in progress"
              /\ UNCHANGED << requestCount, currentRequest, previousEntry >>
      ]_vars

C16_Witness ==
    /\ relayCall.fn = "requestEntry"
    /\ relayCall.error = "Another relay request in progress"
    /\ currentRequest.id = 2
    /\ requestCount = 2
    /\ previousEntry # 0

\* C17: for every entry, group size G, request start block s, current block
\* b >= s and delay d > 0, getEligibilityRange returns firstEligibleIndex =
\* (hash(entry) mod G) + 1 and lastEligibleIndex = firstEligibleIndex +
\* min(floor((b - s) / d), G - 1), less G when that exceeds G; both indexes
\* lie in [1, G].
C17_EligibilityRange ==
    [][ \A entry \in Entries, G \in 1..RelayGroupSize :
          ( /\ GetEligibilityRange(entry, G)
            /\ relayBlock >= currentRequest.startBlock
            /\ relayEntrySubmissionEligibilityDelay > 0 ) =>
              LET elapsed == (relayBlock - currentRequest.startBlock)
                                 \div relayEntrySubmissionEligibilityDelay
                  shift == IF elapsed < G - 1 THEN elapsed ELSE G - 1
                  first == (Keccak256(entry) % G) + 1
              IN  /\ relayCall'.error = None
                  /\ relayCall'.first = first
                  /\ relayCall'.last = IF first + shift > G
                                       THEN first + shift - G
                                       ELSE first + shift
                  /\ relayCall'.first \in 1..G
                  /\ relayCall'.last \in 1..G
      ]_vars

C17_Witness ==
    /\ relayCall.fn = "getEligibilityRange"
    /\ relayCall.error = None
    /\ relayCall.first = RelayGroupSize
    /\ relayCall.last = RelayGroupSize - 1
    /\ currentRequest.id # 0


(***************************************************************************)
(* Claims about the broadcast channel's handlers.                          *)
(***************************************************************************)

\* How often the handler registered by call k has fired.
TimesFired(k) == Cardinality({ j \in 1..Len(chanFired) : chanFired[j] = k })

\* The type of the handler of call k was unregistered after call k.
UnregisteredLater(k) ==
    \E j \in (k + 1)..Len(chanLog) :
        chanLog[j] = [ op |-> "UnregisterRecv", type |-> chanLog[k].type ]

\* C18: after Recv registrations and UnregisterRecv calls, a Send fires no
\* handler whose type was unregistered (also when several handlers share
\* the type) and fires every other registered handler exactly once;
\* unregistering a type that was never registered changes nothing.
C18_HandlerUnregistration ==
    /\ \A k \in ChanCalls("Recv") :
          TimesFired(k) <= (IF UnregisteredLater(k) THEN 0 ELSE 1)
    /\ (chanSent /\ chanPending = {}) =>
          \A k \in ChanCalls("Recv") :
              TimesFired(k) = (IF UnregisteredLater(k) THEN 0 ELSE 1)

C18_Witness ==
    /\ chanSent
    /\ chanPending = {}
    /\ chanLog = << [ op |-> "Recv", type |-> "a" ],
                    [ op |-> "Recv", type |-> "a" ],
                    [ op |-> "Recv", type |-> "b" ],
                    [ op |-> "UnregisterRecv", type |-> "a" ],
                    [ op |-> "UnregisterRecv", type |-> "z" ] >>
    /\ chanFired = << 3 >>


(***************************************************************************)
(* Claims about the parameter pool.                                        *)
(***************************************************************************)

\* C19: GetNow either returns one non-nil parameter and removes it from the
\* pool, or, when the pool holds no parameter, fails at once with 'pool is
\* empty'; with k parameters in the pool, k consecutive calls succeed.
C19_GetNow ==
    [][ (poolGot' # poolGot) =>
          LET got == poolGot'[Len(poolGot')]
          IN  /\ poolGot' = Append(poolGot, got)
              /\ IF Len(poolParams) = 0
                 THEN /\ got = [ param |-> 0, err |-> "pool is empty" ]
                      /\ poolParams' = poolParams
                 ELSE /\ got.err = None
                      /\ got.param # 0
                      /\ got.param = poolParams[1]
                      /\ Len(poolParams') = Len(poolParams) - 1
                      /\ \A k \in 1..Len(poolParams') :
                             poolParams'[k] = poolParams[k + 1]
      ]_vars

C19_Witness ==
    /\ Len(poolGot) = 3
    /\ poolGot[1].err = None
    /\ poolGot[2].err = None
    /\ poolGot[3].err = "pool is empty"
    /\ poolGot[1].param # 0
    /\ poolGot[2].param # 0

\* C20: every parameter GetNow returned has been deleted from persistence
\* when it is returned: no parameter handed out is still in the store.
C20_ReturnedIsDeleted ==
    \A k \in 1..Len(poolGot) :
        poolGot[k].err = None => poolGot[k].param \notin poolStorage

C20_Witness ==
    /\ Len(poolGot) >= 2
    /\ poolGot[1] = [ param |-> 1, err |-> None ]
    /\ poolGot[2].err = None
    /\ poolGot[2].param > MaxPersisted
    /\ poolStorage = {}

PoolParamSet == { poolParams[i] : i \in 1..Len(poolParams) }

PoolReturned ==
    { poolGot[k].param : k \in { j \in 1..Len(poolGot) : poolGot[j].err = None } }

\* C21: whenever the pool exists, the parameters held in memory are the
\* parameters held in persistence, and CurrentSize() is the number of
\* persisted parameters, after any interleaving of generation, retrieval
\* and stop.
C21_PoolConsistency ==
    poolPc \notin {"new", "idle"} =>
        /\ PoolParamSet = poolStorage
        /\ Len(poolParams) = Cardinality(poolStorage)

C21_Witness ==
    /\ poolPc = "stopped"
    /\ poolGenerated >= 2
    /\ PoolReturned # {}
    /\ Len(poolParams) >= 1

\* C22: with a generate function that returns nil only, no step of the
\* running pool adds anything to the pool or to persistence, so a pool
\* started empty stays at size 0 through and after scheduler stop.
C22_NilNeverAdded ==
    [][ (poolGenerateFn = "nil" /\ poolPc \notin {"new", "idle"}) =>
          /\ Len(poolParams') <= Len(poolParams)
          /\ poolStorage' \subseteq poolStorage
      ]_vars

C22_Witness ==
    /\ poolGenerateFn = "nil"
    /\ poolPc = "stopped"
    /\ poolGenerated > 0
    /\ poolParams = << >>
    /\ poolStorage = {}

\* C23: once the scheduler is stopped and no call of the generate function
\* is in flight, the generator starts no further call and no step makes the
\* pool grow, although it is below targetSize.
C23_StopHonoured ==
    [][ (poolStop /\ poolPc \in {"generate", "stopped"}) =>
          /\ poolPc' \in {"generate", "stopped"}
          /\ Len(poolParams') <= Len(poolParams)
      ]_vars

C23_Witness ==
    /\ poolPc = "stopped"
    /\ poolGenerateFn = "values"
    /\ poolGenerated > 0
    /\ Len(poolParams) < poolTargetSize

PoolLoaded ==
    (PoolParamSet \cup poolStorage \cup PoolReturned) \cap (1..MaxPersisted)

\* C25: nothing is generated before the pool has loaded the persisted
\* parameters, and with p persisted parameters the first p GetNow calls
\* succeed and return them in the order of ReadAll.
C25_LoadBeforeGenerate ==
    /\ poolPc = "new" => poolGenerated = 0
    /\ poolPc \notin {"new", "idle"} =>
          \A k \in 1..Len(poolGot) :
              k <= Cardinality(PoolLoaded) =>
                  poolGot[k] = [ param |-> ReadAll(PoolLoaded)[k],
                                 err |-> None ]

C25_Witness ==
    /\ Len(poolGot) = 3
    /\ poolGot[1] = [ param |-> 1, err |-> None ]
    /\ poolGot[2] = [ param |-> 2, err |-> None ]
    /\ poolGot[3].err = None
    /\ poolGot[3].param > MaxPersisted

\* Every parameter of the model.
PoolValues == 1..(MaxPersisted + MaxTargetSize + MaxGetNow)

\* C26: for every parameter x and every store content, ReadAll after
\* Save(x) and Delete(x) does not contain x, every other parameter is
\* stored afterwards iff it was before, and Delete of an absent x changes
\* nothing.
C26_PersistenceIdempotence ==
    \A x \in PoolValues :
        LET after == Delete(Save(poolStorage, x), x)
            all == ReadAll(after)
        IN  /\ \A k \in 1..Len(all) : all[k] # x
            /\ \A y \in PoolValues \ {x} : y \in after <=> y \in poolStorage
            /\ x \notin poolStorage => Delete(poolStorage, x) = poolStorage

C26_Witness ==
    /\ \E x \in PoolReturned : x > MaxPersisted
    /\ poolStorage # {}
    /\ \E x \in PoolValues : x \in poolStorage /\ x > MaxPersisted

(***************************************************************************)
(* Claims about the SPV maintainer.                                        *)
(***************************************************************************)

\* What makes a transaction an unproven deposit sweep: exactly one output,
\* every input an unswept deposit or the wallet's main UTXO, and at least
\* one input an unswept deposit.
IsUnprovenSweep(transaction) ==
    /\ transaction.outputs = 1
    /\ \A i \in 1..Len(transaction.inputs) :
          \/ spvDeposits[transaction.inputs[i]] = "unswept"
          \/ transaction.inputs[i] = spvMainUtxo
    /\ \E i \in 1..Len(transaction.inputs) :
          spvDeposits[transaction.inputs[i]] = "unswept"

\* C27: for every transaction looked at in a sweep,
\* isUnprovenDepositSweepTransaction returns true only for an unproven
\* deposit sweep, and, unless a chain lookup failed (then it returns false
\* with the error), it returns true for every unproven deposit sweep.
C27_FilterCorrectness ==
    [][ spvPc = "sweep" =>
          \A k \in 1..Len(spvChecked') :
              LET r == spvChecked'[k]
              IN  /\ r.unproven => IsUnprovenSweep(spvTxs[k])
                  /\ ~r.err => (r.unproven <=> IsUnprovenSweep(spvTxs[k]))
                  /\ r.err => ~r.unproven
      ]_vars

C27_Witness ==
    /\ Len(spvChecked) = 2
    /\ spvChecked[1] = [ unproven |-> TRUE, err |-> FALSE ]
    /\ spvTxs[1] = [ outputs |-> 1, inputs |-> << "m", "d1" >> ]
    /\ spvChecked[2] = [ unproven |-> FALSE, err |-> FALSE ]
    /\ spvTxs[2] = [ outputs |-> 2, inputs |-> << "d2" >> ]
    /\ spvDeposits["d2"] = "unswept"

\* C28: when the proving of one unproven transaction fails in a sweep, the
\* proof submission is still attempted for every other unproven transaction
\* of that sweep.
C28_BatchToleratesFailures ==
    (spvPc = "restart" /\ spvFailed # 0) =>
        \A k \in 1..Len(spvUnproven) :
            spvUnproven[k] # spvFailed =>
                \E j \in 1..Len(spvSubmitted) : spvSubmitted[j] = spvUnproven[k]

(***************************************************************************)
(* Claims about the sortition pool monitor.                                *)
(***************************************************************************)

\* How often the last status check made the chain call named.
SortCalled(name) ==
    Cardinality({ k \in 1..Len(sortCheck.calls) : sortCheck.calls[k] = name })

\* C29: in every status check JoinSortitionPool is called iff the chain
\* answered that the operator is not up to date, the pool is not locked and
\* the operator is not in the pool, UpdateOperatorStatus iff it answered
\* not up to date, not locked and in the pool; neither is called when the
\* operator is up to date or the pool is locked, and at most one call of
\* the two is made.
C29_SortitionDecision ==
    (sortCheck # << >> /\ SortCalled("IsOperatorInPool") > 0) =>
        LET a == sortCheck.answers
        IN  /\ SortCalled("JoinSortitionPool") > 0 <=>
                  (a.upToDate = "false" /\ a.locked = "false"
                      /\ a.inPool = "false")
            /\ SortCalled("UpdateOperatorStatus") > 0 <=>
                  (a.upToDate = "false" /\ a.locked = "false"
                      /\ a.inPool = "true")
            /\ (a.upToDate = "true" \/ a.locked = "true") =>
                  /\ SortCalled("JoinSortitionPool") = 0
                  /\ SortCalled("UpdateOperatorStatus") = 0
            /\ SortCalled("JoinSortitionPool")
                  + SortCalled("UpdateOperatorStatus") <= 1

C29_Witness ==
    /\ sortPc = "running"
    /\ sortCheck # << >>
    /\ sortCheck.calls =
          << "IsOperatorInPool", "IsOperatorUpToDate", "IsEligibleForRewards",
             "CanRestoreRewardEligibility", "RestoreRewardEligibility",
             "IsPoolLocked", "UpdateOperatorStatus" >>

(***************************************************************************)
(* Claims about the final signing group.                                   *)
(***************************************************************************)

\* The task got as far as resolveFinalSigningGroupOperators.
RsStayed ==
    \/ rsPc = "resolve"
    \/ rsPc = "done" /\ rsErr \in {None, "resolve", "register"}

\* C30: a member that stays after reconciliation operates with exactly the
\* members of result.Group.MemberIDs() that the event does not list as
\* misbehaved; a registered signer's operators are selectedOperators[i-1]
\* for the operating indexes i in ascending order, in whatever order the
\* indexes were given; and when selectedOperators has not GroupSize elements
\* or fewer than HonestThreshold indexes are given, the task ends with the
\* error and registers no signer.
C30_FinalSigningGroup ==
    /\ (RsStayed /\ ~rsPublished) =>
          /\ { rsOperating[k] : k \in 1..Len(rsOperating) }
                = MemberIDs(rsResult) \ rsEvent.Misbehaved
          /\ Len(rsOperating)
                = Cardinality(MemberIDs(rsResult) \ rsEvent.Misbehaved)
    /\ (rsPc = "done" /\ RsStayed) =>
          LET ascending ==
                  SortedSeq({ rsOperating[k] : k \in 1..Len(rsOperating) })
          IN  IF Len(rsSelected) # GroupSize
                 \/ Len(rsOperating) < HonestThreshold
              THEN rsErr = "resolve" /\ rsSigner = << >>
              ELSE \/ rsErr = "register" /\ rsSigner = << >>
                   \/ /\ rsErr = None
                      /\ Len(rsSigner) = Len(rsOperating)
                      /\ \A k \in 1..Len(rsSigner) :
                            rsSigner[k] = rsSelected[ascending[k]]
    /\ rsErr # None => rsSigner = << >>

C30_Witness ==
    /\ rsPc = "done"
    /\ rsSigner # << >>
    /\ Len(rsOperating) < GroupSize
    /\ \E k \in 1..(Len(rsOperating) - 1) : rsOperating[k] > rsOperating[k + 1]

(***************************************************************************)
(* Claims about the start of the DKG.                                      *)
(***************************************************************************)

\* C31: a DKG task is started only on a channel on which the membership
\* filter was installed: after a SetFilter error no task is started.
C31_FilterPrecedesExecution ==
    joinStarted # {} => joinFilter = "set"

(***************************************************************************)
(* Claims about the value carried by the redemption transaction.           *)
(***************************************************************************)

\* C32: in every assembled redemption transaction the main UTXO input value
\* equals the sum of all output values (redemption outputs and the change
\* output when present) plus the sum of the fee shares, so the outputs
\* never exceed the input.
C32_ValueConservation ==
    txPc = "built" =>
        LET outputsValue ==
                SumSeq([ i \in 1..Len(txOutputs) |-> txOutputs[i].Value ])
        IN  /\ txMainUtxo[1] = outputsValue + SumSeq(txFeeShares)
            /\ outputsValue <= txMainUtxo[1]

(***************************************************************************)
(* Claims about the validation of a redemption proposal.                   *)
(***************************************************************************)

\* The scripts ValidateRedemptionProposal looked up, in call order.
ValLookups == Tail(valCalls)

\* C33: ValidateRedemptionProposal first calls the chain validation and
\* looks up no request when that fails; it returns the pending request of
\* every script of the proposal in proposal order, or an error and no
\* request at the first script whose lookup fails or finds no pending
\* request.
C33_AllOrNothing ==
    valResult.err # "notrun" =>
        /\ valCalls # << >>
        /\ valCalls[1] = "ValidateRedemptionProposal"
        /\ ValLookups = SubSeq(valProposal, 1, Len(ValLookups))
        /\ \A j \in 1..(Len(ValLookups) - 1) : valProposal[j] \in valPending
        /\ valResult.err = "invalid" => ValLookups = << >>
        /\ valResult.err # None => valResult.requests = << >>
        /\ valResult.err \in { "lookup", "notPending" } => ValLookups # << >>
        /\ valResult.err = "notPending" =>
              valProposal[Len(ValLookups)] \notin valPending
        /\ valResult.err = None =>
              /\ ValLookups = valProposal
              /\ Len(valResult.requests) = Len(valProposal)
              /\ \A i \in 1..Len(valProposal) :
                    /\ valProposal[i] \in valPending
                    /\ valResult.requests[i] = PendingRequest(valProposal[i])
        /\ (\E i \in 1..Len(valProposal) : valProposal[i] \notin valPending)
              => valResult.err # None

C33_Witness ==
    /\ Len(valProposal) = 2
    /\ valProposal[1] \in valPending
    /\ valProposal[2] \notin valPending
    /\ valResult.err = "notPending"
    /\ valCalls = << "ValidateRedemptionProposal" >> \o valProposal
    /\ valResult.requests = << >>

(***************************************************************************)
(* Claims about the sweeps of the SPV maintainer over time.                *)
(***************************************************************************)

\* The transaction spends a deposit that the Bridge has marked as swept.
HasSweptDepositInput(transaction) ==
    \E i \in 1..Len(transaction.inputs) :
        spvDeposits[transaction.inputs[i]] = "swept"

\* C34: a transaction with an input that is a deposit already marked as
\* swept is never classified as unproven, and no proof is submitted for a
\* transaction whose deposits are marked as swept, in the sweep that proved
\* it or in any later one.
C34_Idempotence ==
    [][ /\ spvPc = "sweep" =>
              \A k \in 1..Len(spvChecked') :
                  HasSweptDepositInput(spvTxs[k]) => ~spvChecked'[k].unproven
        /\ spvSubmitted' # spvSubmitted /\ spvSubmitted' # << >> =>
              ~HasSweptDepositInput(spvTxs[spvSubmitted'[Len(spvSubmitted')]])
      ]_vars

\* A transaction proven in an earlier sweep is looked at again and no proof
\* is submitted.
C34_Witness ==
    /\ spvMainUtxo = SpvOutputs[1]
    /\ spvTxs[1] = [ outputs |-> 1, inputs |-> << "m", "d1" >> ]
    /\ spvDeposits["d1"] = "swept"
    /\ spvChecked = << [ unproven |-> FALSE, err |-> FALSE ] >>
    /\ spvPc = "idle"
    /\ spvSubmitted = << >>

(***************************************************************************)
(* Claims about the block range of the SPV maintainer's event query.       *)
(***************************************************************************)

\* C35: for every current block c, also below 40320, the StartBlock of the
\* event query is max(0, c - 40320) and never above c.
C35_RollingWindow ==
    winPc = "queried" =>
        /\ winStartBlock = IF winCurrentBlock > PastEventsBlocks
                           THEN winCurrentBlock - PastEventsBlocks ELSE 0
        /\ winStartBlock <= winCurrentBlock

\* A step in which the control loop starts a sweep.
SpvSweepStarted == spvPc # "sweep" /\ spvPc' = "sweep"

\* C36: the control loop returns only after its context is cancelled, never
\* because a sweep failed: while the context is live it starts the next
\* sweep after the back-off that follows a failed or a finished sweep; once
\* the context is cancelled it starts at most one further sweep and
\* eventually returns.
C36_LoopLifetime ==
    /\ [](spvPc = "returned" => spvCtxDone = "yes")
    /\ [][ /\ (spvCtxDone = "no" /\ spvPc \in {"idle", "restart"}
                 /\ spvPc' # spvPc) => SpvSweepStarted
           /\ spvPc' = "returned" => spvPc \in {"restart", "returned"}
           /\ spvCtxDone = "yes" => spvCtxDone' = "yes" /\ ~SpvSweepStarted
           /\ spvCtxDone = "waiting" =>
                 /\ spvCtxDone' # "no"
                 /\ SpvSweepStarted => spvCtxDone' = "yes"
         ]_vars
    /\ (spvCtxDone # "no") ~> (spvPc = "returned")

\* The loop has returned after a sweep that failed at a transaction.
C36_Witness ==
    /\ spvPc = "returned"
    /\ spvFailed # 0
    /\ spvCtxDone = "yes"

(***************************************************************************)
(* Claims about the registration check of the sortition pool monitor.     *)
(***************************************************************************)

\* C39: every status check of the monitor, at start-up and on each tick,
\* resolves the operator's staking provider, and a monitor that found the
\* operator unregistered makes no JoinSortitionPool or UpdateOperatorStatus
\* call.
C39_RegistrationCheckedOnEachTick ==
    sortCheck # << >> =>
        /\ SortCalled("OperatorToStakingProvider") > 0
        /\ sortPc = "failed" =>
              /\ SortCalled("JoinSortitionPool") = 0
              /\ SortCalled("UpdateOperatorStatus") = 0

(***************************************************************************)
(* Claims about the lifecycle of a relay request.                          *)
(***************************************************************************)

\* The step is a call of the library function fn.
RelayCalled(fn) == relayBlock' = relayBlock /\ relayCall'.fn = fn

\* C40: currentRequest.id is 0 exactly when no requestEntry succeeded since
\* the last successful submitEntry: it is 0 at first, a successful
\* requestEntry sets it to the incremented requestCount, which is not 0, a
\* successful submitEntry resets it to 0 and stores the entry as
\* previousEntry, nothing else changes it, and submitEntry fails with 'No
\* relay request in progress' while it is 0.
C40_RequestLifecycle ==
    [][ /\ currentRequest.id \in {0, requestCount}
        /\ requestCount = 0 => currentRequest.id = 0
        /\ (RelayCalled("requestEntry") /\ relayCall'.error = None) =>
              /\ currentRequest.id = 0
              /\ requestCount' = requestCount + 1
              /\ currentRequest'.id = requestCount'
              /\ currentRequest'.id # 0
        /\ (RelayCalled("submitEntry") /\ relayCall'.error = None) =>
              /\ currentRequest.id # 0
              /\ currentRequest'.id = 0
              /\ \E submitterIndex \in 1..RelayGroupSize, entry \in Entries :
                    /\ SubmitEntry(submitterIndex, entry, TRUE, TRUE)
                    /\ previousEntry' = entry
        /\ (RelayCalled("submitEntry") /\ currentRequest.id = 0) =>
              /\ relayCall'.error = "No relay request in progress"
              /\ UNCHANGED RelayData
        /\ currentRequest'.id # currentRequest.id =>
              \/ RelayCalled("requestEntry") /\ relayCall'.error = None
              \/ RelayCalled("submitEntry") /\ relayCall'.error = None
      ]_vars

\* A second request was made after the entry of the first was submitted.
C40_Witness ==
    /\ relayCall.fn = "submitEntry"
    /\ relayCall.error = None
    /\ requestCount = 2
    /\ currentRequest.id = 0
    /\ previousEntry # 0

(***************************************************************************)
(* Claims about the moving funds commitment.                               *)
(***************************************************************************)

\* SubmitMovingFundsCommitment was called by Run.
MfSubmitCalled ==
    \E k \in 1..Len(mfRun.calls) :
        mfRun.calls[k] = "SubmitMovingFundsCommitment"

\* C37: after the chain submission SubmitMovingFundsCommitment checks the
\* wallet once per block from currentBlock+1 on and at most up to
\* currentBlock+6; it returns nil at the first check that sees a non-zero
\* commitment hash and ErrTransactionNotIncluded when the check at
\* currentBlock+6 still sees the zero hash; when the chain submission fails
\* it returns the error without any check.
C37_CommitmentConfirmation ==
    mfPc # "off" =>
        /\ Len(mfChecks) <= 6
        /\ \A k \in 1..Len(mfChecks) :
              /\ mfChecks[k].blockHeight = mfRun.currentBlock + k
              /\ k < Len(mfChecks) => mfChecks[k].hash = ZeroHash
        /\ mfRun.submit = "nil" =>
              /\ mfChecks # << >>
              /\ mfChecks[Len(mfChecks)].hash # ZeroHash
        /\ mfRun.submit = "ErrTransactionNotIncluded" =>
              /\ Len(mfChecks) = 6
              /\ mfChecks[6].hash = ZeroHash
        /\ (mfPc = "wait" /\ mfChecks # << >>) =>
              mfChecks[Len(mfChecks)].hash = ZeroHash
        /\ mfRun.submit \in {"chain", "counter"} => mfChecks = << >>
        /\ mfChecks # << >> => MfSubmitCalled

C37_Witness ==
    /\ mfRun.submit = "nil"
    /\ Len(mfChecks) = 6
    /\ mfRun.currentBlock = 7
    /\ mfChecks[6].blockHeight = 13

\* The wallet is not eligible for moving funds.
MfNotEligible ==
    \/ mfChain.State # "MovingFunds"
    \/ mfChain.PendingRedemptionsValue > 0
    \/ mfChain.PendingMovedFundsSweepRequestsCount > 0
    \/ mfChain.MainUtxo = << >>
    \/ mfChain.MainUtxo[1] <= 0
    \/ mfChain.LiveWalletsCount = 0

\* C38: Run calls SubmitMovingFundsCommitment only for a wallet whose
\* commitment hash it read as zero, and never for a wallet that is not in
\* the MovingFunds state, has pending redemptions or pending moved funds
\* sweep requests, has no positive balance, or when there is no Live wallet:
\* then it returns no proposal and, unless a chain query failed, no error.
\* With a non-zero hash it goes on with the committed target wallets, and
\* returns ErrWrongCommitmentHash when their hash is not the committed one.
C38_CommitmentSubmittedOnce ==
    mfPc # "off" =>
        /\ MfSubmitCalled => mfRun.hash = ZeroHash /\ ~MfNotEligible
        /\ (mfPc = "done" /\ MfNotEligible) =>
              /\ ~mfRun.proposal
              /\ mfRun.calls = << >>
              /\ mfRun.err \in { None, "GetWallet", "DetermineWalletMainUtxo",
                                 "GetLiveWalletsCount" }
        /\ (mfPc = "done" /\ mfRun.err = None /\ ~mfRun.proposal) =>
              MfNotEligible
        /\ (mfRun.calls # << >> /\ mfRun.hash # ZeroHash) =>
              /\ ~MfSubmitCalled
              /\ mfRun.err = "ErrWrongCommitmentHash" =>
                    /\ mfChain.EventWallets # "none"
                    /\ ComputeMovingFundsCommitmentHash(mfChain.EventWallets)
                          # mfRun.hash
              /\ (mfChain.EventWallets # "none"
                    /\ ComputeMovingFundsCommitmentHash(mfChain.EventWallets)
                          # mfRun.hash) =>
                    mfRun.err = "ErrWrongCommitmentHash"
                       \/ mfRun.err = "PastMovingFundsCommitmentSubmittedEvents"
              /\ mfPc = "propose" =>
                    /\ mfRun.targetWallets = mfChain.EventWallets
                    /\ ComputeMovingFundsCommitmentHash(mfRun.targetWallets)
                          = mfRun.hash

C38_Witness ==
    /\ mfPc = "done"
    /\ mfRun.hash = "h1"
    /\ mfChain.EventWallets = "t2"
    /\ mfRun.err = "ErrWrongCommitmentHash"
    /\ mfRun.calls = << "FindTargetWallets" >>

====
